---- MODULE Spec2Model ----
(***************************************************************************)
(* Verification model of bevy_eventwork's synchronization engine:          *)
(*   - the reactive client context (eventwork_client: SyncContext,         *)
(*     SyncProvider, ClientRegistry),                                      *)
(*   - the server subscription manager, mutation authorizer and typed      *)
(*     apply (eventwork_sync: registry.rs),                                *)
(*   - the client mutation tracker (eventwork_sync: client_sync.rs).       *)
(* Each subsystem has its own specification over the shared variables.     *)
(***************************************************************************)
EXTENDS Integers, Sequences, FiniteSets, TLC

\* ---------------------------------------------------------------- bounds
MaxBinds == 2          \* subscribe_component calls made in one run
MaxOpens == 2          \* times the transport reaches Open in one run
MaxBatch == 2          \* items in one SyncBatch
MaxCommits == 2        \* mutations one editable field sends in one run
MaxConns == 2          \* connections the server accepts in one run
MaxMsgs == 3           \* Subscribe/Unsubscribe messages the server handles in one run
MaxMutations == 2      \* mutations queued in one run
MaxMutateCalls == 2    \* SyncClient::mutate calls made in one run
MaxRegistrations == 4  \* sync_component calls made while the app is built
MaxResponses == 2      \* MutationResponse messages a SyncClient handles in one run

\* ------------------------------------------------------------- constants
None == "None"
\* component types bound by the UI (demo_shared: DemoCounter, DemoFlag)
Types == {"DemoCounter", "DemoFlag"}
NoType == ""

VARIABLES
    \* ---- client: SyncContext (context.rs) ----
    ready_state,            \* ConnectionReadyState signal of the transport
    open_count,             \* number of times the transport has reached Open
    subscriptions,          \* component name -> [id, ref_count]
    next_subscription_id,   \* next id handed out by increment_subscription
    signal_cache,           \* component type -> weak handle (signal id)
    strong_arcs,            \* signal ids whose Arc still has a strong owner
    signals,                \* arena of typed views: signal id -> map entity -> value
    binds,                  \* one record per subscribe_component call (UI owner)
    sent,                   \* messages handed to the send function, in order
    component_data,         \* raw store: (entity, name) -> bytes
    registry,               \* ClientRegistry: component name -> registered type
    \* ---- client: SyncProvider (provider.rs) ----
    raw_message,            \* the transport's message signal (latest packet)
    msg_pending,            \* the message-handler effect is scheduled
    last_error,             \* last_error signal
    \* ---- server: Network, SubscriptionManager, SnapshotQueue ----
    established_connections, \* Network::established_connections (ids)
    connection_count,       \* Network::connection_count
    sm_subscriptions,       \* SubscriptionManager::subscriptions
    snapshot_queue,         \* SnapshotQueue::pending
    client_log,             \* Subscribe/Unsubscribe messages handled so far
    \* ---- server: MutationQueue, authorizer, world ----
    authorizer,             \* MutationAuthorizerResource, if installed
    mutation_queue,         \* MutationQueue::pending
    world,                  \* ECS world: live entity -> component type -> value
    mutation_responses,     \* MutationResponse messages produced, in order
    changed,                \* (entity, type) pairs whose change tick advanced
    updates,                \* Update items dispatched to subscribers, in order
    \* ---- client: SyncClient (client_sync.rs) ----
    next_request_id,        \* SyncClient::next_request_id
    mutations,              \* SyncClient::mutations: request_id -> MutationState
    client_sent,            \* messages handed to SyncClient::send, in order
    mutate_calls,           \* one record per mutate call: the id it returned
    responses_handled,      \* MutationResponse messages handled so far
    \* ---- server: dispatcher ----
    batches,                \* SyncBatch messages sent, in order, with their connection
    \* ---- server: SyncRegistry and schedule ----
    sync_components,        \* SyncRegistry::components
    change_systems,         \* change-detection systems added to the schedule, by type
    \* ---- wire codec ----
    codec_packet,           \* the NetworkPacket given to encode, if any
    codec_encoded,          \* what encode returned
    codec_received,         \* the frame handed to decode
    codec_decoded,          \* what decode returned, if called
    \* ---- Network: message registration ----
    recv_message_map,       \* Network::recv_message_map, its keys
    recv_message_map_by_hash, \* Network::recv_message_map_by_hash, its keys
    hash_to_typename,       \* Network::hash_to_typename
    receive_systems,        \* register_message::<T> systems added to PreUpdate
    net_panic,              \* the panic that ended the app's construction, if any
    last_registration,      \* the registration call made last, if any
    \* ---- use_sync_component_write ----
    server_value,           \* this entity's component in the typed view, if any
    local_value,            \* the RwSignal the input is bound to
    is_editing,             \* the hook's editing flag
    sync_effect_pending,    \* the server -> local effect is scheduled
    commit_effect_pending,  \* the commit effect is scheduled
    is_first_run,           \* the commit effect has not run yet
    field_mutations,        \* values given to ctx.mutate
    user_editing,           \* the user has typed and not yet committed
    local_writer,           \* who wrote local_value last
    \* ---- client: a clone of the SyncClient ----
    clone_client,           \* the SyncClient made by clone(), if any
    clone_calls,            \* one record per mutate call made on the clone
    \* ---- client: DevtoolsSync ----
    reactive_mutations,     \* DevtoolsSync::mutations, the RwSignal's map
    devtools_pending,       \* the request_id a DevtoolsSync::mutate call holds
                            \* between SyncClient::mutate and the signal update
    devtools_log,           \* the DevtoolsSync operations completed, in order
    \* ---- client: threads calling SyncClient::mutate ----
    threads,                \* per thread: its position in mutate and its id
    \* ---- Network: connection lifecycle ----
    server_handle,          \* Network::server_handle is Some
    new_connections,        \* connections waiting in the new_connections channel
    disconnected_connections, \* ids waiting in the disconnected_connections channel
    network_events,         \* NetworkEvent messages written, in order
    recv_finished,          \* connections whose receive loop has ended
    packet_log,             \* packets read from connections and what became of them
    net_started,            \* listen or connect has been called
    \* ---- history ----
    bind_log                \* per bind: was the transport Open when it was made

clientVars == <<ready_state, open_count, subscriptions, next_subscription_id,
                signal_cache, strong_arcs, signals, binds, sent,
                component_data, registry>>

ingressVars == <<raw_message, msg_pending, last_error>>

subVars == <<established_connections, connection_count, sm_subscriptions,
             snapshot_queue, client_log>>

mutVars == <<authorizer, mutation_queue, world, mutation_responses, changed,
             updates>>

trackerVars == <<next_request_id, mutations, client_sent, mutate_calls,
                 responses_handled>>

historyVars == <<bind_log>>

frameVars == <<batches>>

registryVars == <<sync_components, change_systems>>

codecVars == <<codec_packet, codec_encoded, codec_received, codec_decoded>>

messageVars ==
    <<recv_message_map, recv_message_map_by_hash, hash_to_typename,
      receive_systems, net_panic, last_registration>>

\* the state outside the client, the server stages and the tracker
fieldVars ==
    <<server_value, local_value, is_editing, sync_effect_pending,
      commit_effect_pending, is_first_run, field_mutations, user_editing,
      local_writer>>

cloneVars == <<clone_client, clone_calls>>

devtoolsVars == <<reactive_mutations, devtools_pending, devtools_log>>

threadVars == <<threads>>

netVars ==
    <<server_handle, new_connections, disconnected_connections, network_events,
      recv_finished, packet_log, net_started>>

\* the clone, the reactive wrapper, the threads and the connection lifecycle
lateVars == <<cloneVars, devtoolsVars, threadVars, netVars>>

\* the state outside the client, the server stages and the tracker
restVars == <<registryVars, codecVars, messageVars, fieldVars, lateVars>>

vars == <<clientVars, ingressVars, subVars, mutVars, trackerVars, historyVars,
          frameVars, restVars>>

\* ------------------------------------------------ HashMap helper operators
Insert(m, k, v) == [x \in (DOMAIN m) \cup {k} |-> IF x = k THEN v ELSE m[x]]
Remove(m, k) == [x \in (DOMAIN m) \ {k} |-> m[x]]
EmptyMap == [x \in {} |-> None]
\* Option<u64>
Some(v) == [some |-> TRUE, val |-> v]
NoneOpt == [some |-> FALSE]

\* ------------------------------------------------ bincode (standard config)
\* little-endian value of a byte sequence
RECURSIVE LittleEndian(_)
LittleEndian(bs) ==
    IF Len(bs) = 0 THEN 0 ELSE bs[1] + 256 * LittleEndian(Tail(bs))

DecodeErr == [ok |-> FALSE]

\* width in bytes of the integer that follows a varint marker byte
MarkerWidth(b) == CASE b = 251 -> 2 [] b = 252 -> 4 [] b = 253 -> 8 [] OTHER -> 16

\* varint decoding of an unsigned integer of at most maxWidth bytes:
\* one byte below 251 is the value, 251..254 announce a wider integer,
\* 255 is reserved; a marker wider than the target type is an error
DecodeVarUint(bs, maxWidth) ==
    IF Len(bs) = 0 THEN DecodeErr
    ELSE IF bs[1] < 251 THEN [ok |-> TRUE, val |-> bs[1], rest |-> Tail(bs)]
    ELSE IF bs[1] = 255 \/ MarkerWidth(bs[1]) > maxWidth THEN DecodeErr
    ELSE IF Len(bs) < 1 + MarkerWidth(bs[1]) THEN DecodeErr
    ELSE [ok |-> TRUE,
          val |-> LittleEndian(SubSeq(bs, 2, 1 + MarkerWidth(bs[1]))),
          rest |-> SubSeq(bs, 2 + MarkerWidth(bs[1]), Len(bs))]

\* zigzag: even n is n/2, odd n is !(n/2) = -(n/2) - 1
ZigZag(n) == IF n % 2 = 0 THEN n \div 2 ELSE 0 - (n \div 2) - 1

DecodeI32(bs) ==
    LET u == DecodeVarUint(bs, 4)
    IN  IF u.ok THEN [ok |-> TRUE, val |-> ZigZag(u.val), rest |-> u.rest]
        ELSE DecodeErr

DecodeBool(bs) ==
    IF Len(bs) = 0 THEN DecodeErr
    ELSE IF bs[1] = 0 THEN [ok |-> TRUE, val |-> FALSE, rest |-> Tail(bs)]
    ELSE IF bs[1] = 1 THEN [ok |-> TRUE, val |-> TRUE, rest |-> Tail(bs)]
    ELSE DecodeErr

\* UTF-8 well-formedness (String decoding validates it); the overlong and
\* surrogate exclusions of the 3- and 4-byte forms are not distinguished
IsCont(b) == b >= 128 /\ b < 192
RECURSIVE Utf8Valid(_)
Utf8Valid(bs) ==
    IF Len(bs) = 0 THEN TRUE
    ELSE LET b == bs[1]
             n == IF b < 128 THEN 1
                  ELSE IF b >= 194 /\ b < 224 THEN 2
                  ELSE IF b >= 224 /\ b < 240 THEN 3
                  ELSE IF b >= 240 /\ b < 245 THEN 4
                  ELSE 0
         IN  /\ n > 0
             /\ Len(bs) >= n
             /\ \A i \in 2..n : IsCont(bs[i])
             /\ Utf8Valid(SubSeq(bs, n + 1, Len(bs)))

DecodeString(bs) ==
    LET l == DecodeVarUint(bs, 8)
    IN  IF ~l.ok THEN DecodeErr
        ELSE IF Len(l.rest) < l.val THEN DecodeErr
        ELSE IF ~Utf8Valid(SubSeq(l.rest, 1, l.val)) THEN DecodeErr
        ELSE [ok |-> TRUE, val |-> SubSeq(l.rest, 1, l.val),
              rest |-> SubSeq(l.rest, l.val + 1, Len(l.rest))]

\* decode_from_slice::<T>: fields in declaration order, trailing bytes ignored
\* DemoCounter { value: i32 }
DecodeDemoCounter(bs) ==
    LET v == DecodeI32(bs)
    IN  IF v.ok THEN [ok |-> TRUE, val |-> [value |-> v.val]] ELSE DecodeErr

\* DemoFlag { label: String, enabled: bool }
DecodeDemoFlag(bs) ==
    LET l == DecodeString(bs)
    IN  IF ~l.ok THEN DecodeErr
        ELSE LET e == DecodeBool(l.rest)
             IN  IF e.ok THEN [ok |-> TRUE, val |-> [label |-> l.val, enabled |-> e.val]]
                 ELSE DecodeErr

decode_from_slice(T, bs) ==
    IF T = "DemoCounter" THEN DecodeDemoCounter(bs) ELSE DecodeDemoFlag(bs)

\* ---- encoding (bincode::serde::encode_to_vec, standard config)
\* the n low bytes of u, little-endian
RECURSIVE ToLittleEndian(_, _)
ToLittleEndian(u, n) ==
    IF n = 0 THEN <<>> ELSE <<u % 256>> \o ToLittleEndian(u \div 256, n - 1)

\* varint encoding of an unsigned integer: below 251 one byte, else a marker
\* byte and the narrowest of the u16 / u32 forms that holds it
EncodeVarUint(u) ==
    IF u < 251 THEN <<u>>
    ELSE IF u < 65536 THEN <<251>> \o ToLittleEndian(u, 2)
    ELSE <<252>> \o ToLittleEndian(u, 4)

\* zigzag of a signed integer: n >= 0 is 2n, n < 0 is -2n - 1
UnZigZag(n) == IF n >= 0 THEN 2 * n ELSE 0 - 2 * n - 1

EncodeI32(n) == EncodeVarUint(UnZigZag(n))
EncodeBool(b) == IF b THEN <<1>> ELSE <<0>>
EncodeString(str) == EncodeVarUint(Len(str)) \o str
EncodeDemoCounter(c) == EncodeI32(c.value)
EncodeDemoFlag(f) == EncodeString(f.label) \o EncodeBool(f.enabled)
encode_to_vec(T, v) ==
    IF T = "DemoCounter" THEN EncodeDemoCounter(v) ELSE EncodeDemoFlag(v)

\* ------------------------------------------------ ClientRegistry (registry.rs)
\* register::<T>() files T's decoder under T::component_name()
ClientRegistryOf(ts) == [n \in ts |-> n]

\* deserialize::<T>(name, data): unknown name, decode failure and a decoder of
\* another type (downcast failure) are all errors
deserialize(reg, T, name, data) ==
    IF name \notin DOMAIN reg THEN DecodeErr
    ELSE LET boxed == decode_from_slice(reg[name], data)
         IN  IF ~boxed.ok THEN DecodeErr
             ELSE IF reg[name] # T THEN DecodeErr
             ELSE boxed


\* ------------------------------------------------ SyncContext (context.rs)
Entities == {7, 12}

\* messages handed to the send function; conn numbers the Open period the
\* transport was in (0: never open), open tells whether it was Open
SubscribeMsg(id, T) ==
    [kind |-> "Subscribe", subscription_id |-> id, component_type |-> T,
     conn |-> open_count, open |-> ready_state = "Open"]
UnsubscribeMsg(id) ==
    [kind |-> "Unsubscribe", subscription_id |-> id, component_type |-> NoType,
     conn |-> open_count, open |-> ready_state = "Open"]

\* variant: every bind is reported as the first one
increment_subscription_AlwaysFirst(subs, next_id, name) ==
    IF name \in DOMAIN subs
    THEN [subs    |-> [subs EXCEPT ![name].ref_count = @ + 1],
          next_id |-> next_id,
          first   |-> TRUE]
    ELSE [subs    |-> Insert(subs, name, [id |-> next_id, ref_count |-> 1]),
          next_id |-> next_id + 1,
          first   |-> TRUE]

\* increment_subscription: bump the count of an existing entry, or allocate
\* the next id for a new one; first tells which
increment_subscription(subs, next_id, name) ==
    IF name \in DOMAIN subs
    THEN [subs    |-> [subs EXCEPT ![name].ref_count = @ + 1],
          next_id |-> next_id,
          first   |-> FALSE]
    ELSE [subs    |-> Insert(subs, name, [id |-> next_id, ref_count |-> 1]),
          next_id |-> next_id + 1,
          first   |-> TRUE]

\* variant: the id is returned one teardown early (count compared with 1)
decrement_subscription_OffByOne(subs, name) ==
    IF name \in DOMAIN subs
    THEN IF subs[name].ref_count - 1 = 0
         THEN [subs |-> Remove(subs, name), result |-> Some(subs[name].id)]
         ELSE [subs |-> [subs EXCEPT ![name].ref_count = @ - 1],
               result |-> IF subs[name].ref_count - 1 = 1
                          THEN Some(subs[name].id) ELSE NoneOpt]
    ELSE [subs |-> subs, result |-> NoneOpt]

\* decrement_subscription: Some(id) exactly when the count reaches zero, and
\* the entry is removed then
decrement_subscription(subs, name) ==
    IF name \in DOMAIN subs
    THEN IF subs[name].ref_count - 1 = 0
         THEN [subs |-> Remove(subs, name), result |-> Some(subs[name].id)]
         ELSE [subs |-> [subs EXCEPT ![name].ref_count = @ - 1], result |-> NoneOpt]
    ELSE [subs |-> subs, result |-> NoneOpt]

\* variant: the default id is sent without the lookup
send_subscription_request_DefaultId(subs, name) == SubscribeMsg(0, name)

\* send_subscription_request: the id is looked up at send time, 0 if missing
send_subscription_request(subs, name) ==
    SubscribeMsg(IF name \in DOMAIN subs THEN subs[name].id ELSE 0, name)

send_unsubscribe_request(id) == UnsubscribeMsg(id)

\* Weak::upgrade on a cached handle: succeeds while a strong Arc exists
upgrade(cache, arcs, T) == T \in DOMAIN cache /\ cache[T] \in arcs

\* the cache stores Arc<RwSignal<..>> coerced to Arc<dyn Any>, so the value
\* behind the dyn Any is the RwSignal; the lookup downcasts to Arc<RwSignal<..>>
CachedConcreteType == "RwSignal"
DowncastTarget == "Arc<RwSignal>"
downcast_ref == CachedConcreteType = DowncastTarget

\* variant: the first entry that fails to deserialize ends the scan
RECURSIVE ProjectLoop_AbortOnError(_, _, _, _, _)
ProjectLoop_AbortOnError(keys, data, reg, T, typed_map) ==
    IF keys = {} THEN typed_map
    ELSE LET k == CHOOSE x \in keys : TRUE
             d == deserialize(reg, T, k[2], data[k])
         IN  IF k[2] = T /\ ~d.ok THEN typed_map
             ELSE ProjectLoop_AbortOnError(keys \ {k}, data, reg, T,
                     IF k[2] = T /\ d.ok THEN Insert(typed_map, k[1], d.val)
                     ELSE typed_map)

\* the projection effect's body: scan the raw store, keep the entries filed
\* under the component's name that deserialize, skip those that do not
RECURSIVE ProjectLoop(_, _, _, _, _)
ProjectLoop(keys, data, reg, T, typed_map) ==
    IF keys = {} THEN typed_map
    ELSE LET k == CHOOSE x \in keys : TRUE
             d == deserialize(reg, T, k[2], data[k])
         IN  ProjectLoop(keys \ {k}, data, reg, T,
                 IF k[2] = T /\ d.ok THEN Insert(typed_map, k[1], d.val)
                 ELSE typed_map)

Project(data, reg, T) == ProjectLoop(DOMAIN data, data, reg, T, EmptyMap)

NewBind(T, view, first, fresh, nth) ==
    [type |-> T, alive |-> TRUE, view |-> view,
     hasSubEffect |-> first, subPending |-> first,
     hasProjEffect |-> fresh, projPending |-> fresh, nth |-> nth]

\* subscribe_component::<T>() called by a UI component
Bind(T) ==
    LET inc == increment_subscription(subscriptions, next_subscription_id, T)
        hit == upgrade(signal_cache, strong_arcs, T) /\ downcast_ref
        s   == Len(signals) + 1
    IN  /\ subscriptions' = inc.subs
        /\ next_subscription_id' = inc.next_id
        /\ IF hit
           THEN \* cached view: count the bind, register the cleanup, return it
                /\ binds' = Append(binds, NewBind(T, signal_cache[T], FALSE, FALSE,
                                                  inc.subs[T].ref_count))
                /\ UNCHANGED <<signals, signal_cache, strong_arcs>>
           ELSE \* new signal, cached weakly; the Arc itself is a local that is
                \* dropped when the call returns
                /\ signals' = Append(signals, EmptyMap)
                /\ signal_cache' = Insert(signal_cache, T, s)
                /\ strong_arcs' = (strong_arcs \cup {s}) \ {s}
                /\ binds' = Append(binds, NewBind(T, s, inc.first, TRUE,
                                                  inc.subs[T].ref_count))
        /\ UNCHANGED <<ready_state, open_count, sent, component_data, registry>>

\* the owner of bind b is torn down: its effects are disposed and its
\* on_cleanup hook runs
Teardown(b) ==
    LET dec == decrement_subscription(subscriptions, binds[b].type)
    IN  /\ binds[b].alive
        /\ binds' = [binds EXCEPT ![b].alive = FALSE, ![b].subPending = FALSE,
                                  ![b].projPending = FALSE]
        /\ subscriptions' = dec.subs
        /\ sent' = IF dec.result.some
                   THEN Append(sent, send_unsubscribe_request(dec.result.val))
                   ELSE sent
        /\ UNCHANGED <<ready_state, open_count, next_subscription_id, signal_cache,
                       strong_arcs, signals, component_data, registry>>

\* variant: the effect sends without looking at the transport state
RunSubscribeEffect_IgnoreReadyState(b) ==
    /\ binds[b].alive /\ binds[b].hasSubEffect /\ binds[b].subPending
    /\ binds' = [binds EXCEPT ![b].subPending = FALSE]
    /\ sent' = Append(sent, send_subscription_request(subscriptions, binds[b].type))
    /\ UNCHANGED <<ready_state, open_count, subscriptions, next_subscription_id,
                   signal_cache, strong_arcs, signals, component_data, registry>>

\* the effect armed by the first bind runs: it sends the Subscribe if the
\* transport is Open and does nothing otherwise
RunSubscribeEffect(b) ==
    /\ binds[b].alive /\ binds[b].hasSubEffect /\ binds[b].subPending
    /\ binds' = [binds EXCEPT ![b].subPending = FALSE]
    /\ sent' = IF ready_state = "Open"
               THEN Append(sent, send_subscription_request(subscriptions, binds[b].type))
               ELSE sent
    /\ UNCHANGED <<ready_state, open_count, subscriptions, next_subscription_id,
                   signal_cache, strong_arcs, signals, component_data, registry>>

\* the projection effect of bind b runs and replaces the typed view
RunProjectionEffect(b) ==
    /\ binds[b].alive /\ binds[b].hasProjEffect /\ binds[b].projPending
    /\ binds' = [binds EXCEPT ![b].projPending = FALSE]
    /\ signals' = [signals EXCEPT ![binds[b].view] =
                       Project(component_data, registry, binds[b].type)]
    /\ UNCHANGED <<ready_state, open_count, subscriptions, next_subscription_id,
                   signal_cache, strong_arcs, sent, component_data, registry>>

\* the transport's ready_state signal changes; every live effect that reads
\* it is scheduled to run again
NotifyReadyState(bs) ==
    [b \in DOMAIN bs |->
        IF bs[b].alive /\ bs[b].hasSubEffect
        THEN [bs[b] EXCEPT !.subPending = TRUE] ELSE bs[b]]

SetReadyState(new) ==
    /\ ready_state' = new
    /\ binds' = NotifyReadyState(binds)
    /\ UNCHANGED <<subscriptions, next_subscription_id, signal_cache, strong_arcs,
                   signals, sent, component_data, registry>>

TransportConnecting ==
    /\ ready_state = "Closed"
    /\ open_count < MaxOpens
    /\ SetReadyState("Connecting")
    /\ UNCHANGED open_count

TransportOpen ==
    /\ ready_state = "Connecting"
    /\ SetReadyState("Open")
    /\ open_count' = open_count + 1

TransportClosing ==
    /\ ready_state = "Open"
    /\ SetReadyState("Closing")
    /\ UNCHANGED open_count

TransportClosed ==
    /\ ready_state \in {"Connecting", "Open", "Closing"}
    /\ SetReadyState("Closed")
    /\ UNCHANGED open_count


\* ------------------------------------------------ SyncProvider (provider.rs)
NoMessage == [kind |-> "NoMessage"]
NoError == "NoError"

\* SyncItem variants
Snapshot(e, T, v) == [item |-> "Snapshot", entity |-> e, component_type |-> T, value |-> v]
Update(e, T, v) == [item |-> "Update", entity |-> e, component_type |-> T, value |-> v]
ComponentRemoved(e, T) ==
    [item |-> "ComponentRemoved", entity |-> e, component_type |-> T, value |-> <<>>]
EntityRemoved(e) ==
    [item |-> "EntityRemoved", entity |-> e, component_type |-> NoType, value |-> <<>>]

\* items the transport delivers in this model
Items ==
    {Snapshot(e, "DemoCounter", <<4>>) : e \in Entities}
        \cup {Update(e, "DemoFlag", <<0, 1>>) : e \in Entities}
        \cup {Update(7, "DemoCounter", <<6>>)}
        \cup {ComponentRemoved(e, T) : e \in Entities, T \in Types}
        \cup {EntityRemoved(e) : e \in Entities}

RECURSIVE SeqsUpTo(_, _)
SeqsUpTo(S, n) ==
    IF n = 0 THEN {<<>>}
    ELSE LET shorter == SeqsUpTo(S, n - 1)
         IN  shorter \cup {Append(q, x) : q \in shorter, x \in S}

\* packets whose data decodes to a SyncServerMessage, and one that does not
ServerMessages ==
    {[kind |-> "SyncBatch", items |-> is] : is \in SeqsUpTo(Items, MaxBatch)}
        \cup {[kind |-> "MutationResponse", items |-> <<>>],
              [kind |-> "QueryResponse", items |-> <<>>],
              [kind |-> "Undecodable", items |-> <<>>]}

\* handle_sync_item: every variant is matched, logged and answered with
\* Ok(()); the raw store is not written
handle_sync_item(data, item) ==
    [data |-> data, result |-> "Ok"]

\* handle_server_message: the items of a SyncBatch in order, an error of an
\* item goes to last_error; the other messages are ignored
RECURSIVE HandleItems(_, _, _)
HandleItems(items, data, err) ==
    IF Len(items) = 0 THEN [data |-> data, err |-> err]
    ELSE LET r == handle_sync_item(data, Head(items))
         IN  HandleItems(Tail(items), r.data,
                         IF r.result = "Ok" THEN err ELSE r.result)

handle_server_message(msg, data, err) ==
    IF msg.kind = "SyncBatch" THEN HandleItems(msg.items, data, err)
    ELSE [data |-> data, err |-> err]

\* a packet arrives: the message signal is set and the handler effect is
\* scheduled
OnMessage(msg) ==
    /\ raw_message' = msg
    /\ msg_pending' = TRUE
    /\ UNCHANGED <<last_error, clientVars, subVars, mutVars, trackerVars,
                   historyVars, frameVars, restVars>>

\* the handler effect runs on the latest packet
RunMessageEffect ==
    /\ msg_pending
    /\ msg_pending' = FALSE
    /\ IF raw_message.kind = "Undecodable"
       THEN /\ last_error' = "DeserializationFailed"
            /\ UNCHANGED component_data
       ELSE LET r == handle_server_message(raw_message, component_data, last_error)
            IN  /\ component_data' = r.data
                /\ last_error' = r.err
    /\ UNCHANGED <<raw_message, ready_state, open_count, subscriptions,
                   next_subscription_id, signal_cache, strong_arcs, signals,
                   binds, sent, registry>>
    /\ UNCHANGED <<subVars, mutVars, trackerVars, historyVars, frameVars, restVars>>


\* ------------------------------------------------ server: subscriptions
SERVER == 0
SubIds == {1, 2}
ConnIds == 1..MaxConns

SubscriptionEntry(c, id, T, e) ==
    [connection_id |-> c, subscription_id |-> id, component_type |-> T, entity |-> e]

\* Vec::retain with the closure given as the set of entries to keep
RECURSIVE Retain(_, _)
Retain(v, keep) ==
    IF Len(v) = 0 THEN <<>>
    ELSE IF Head(v) \in keep THEN <<Head(v)>> \o Retain(Tail(v), keep)
    ELSE Retain(Tail(v), keep)

Elems(v) == {v[i] : i \in DOMAIN v}

\* SubscriptionManager::add_subscription
add_subscription(subs, entry) == Append(subs, entry)

\* variant: the connection is not compared
remove_subscription_AnyConnection(subs, connection, subscription_id) ==
    Retain(subs, {x \in Elems(subs) : ~(x.subscription_id = subscription_id)})

\* variant: || in place of &&
remove_subscription_Or(subs, connection, subscription_id) ==
    Retain(subs, {x \in Elems(subs) :
        ~(x.connection_id = connection \/ x.subscription_id = subscription_id)})

\* SubscriptionManager::remove_subscription
remove_subscription(subs, connection, subscription_id) ==
    Retain(subs, {x \in Elems(subs) :
        ~(x.connection_id = connection /\ x.subscription_id = subscription_id)})

\* variant: the retain test is inverted
remove_all_for_connection_Inverted(subs, connection) ==
    Retain(subs, {x \in Elems(subs) : x.connection_id = connection})

\* SubscriptionManager::remove_all_for_connection
remove_all_for_connection(subs, connection) ==
    Retain(subs, {x \in Elems(subs) : x.connection_id # connection})

InitSub ==
    /\ established_connections = {}
    /\ connection_count = 1
    /\ sm_subscriptions = <<>>
    /\ snapshot_queue = <<>>
    /\ client_log = <<>>
    /\ batches = <<>>

\* variant: the counter is not advanced
AcceptConnection_KeepCount ==
    /\ connection_count <= MaxConns
    /\ connection_count \notin established_connections
    /\ established_connections' = established_connections \cup {connection_count}
    /\ UNCHANGED <<connection_count, sm_subscriptions, snapshot_queue, client_log>>

\* handle_new_incoming_connections, one accepted connection
AcceptConnection ==
    /\ connection_count <= MaxConns
    /\ established_connections' = established_connections \cup {connection_count}
    /\ connection_count' = connection_count + 1
    /\ UNCHANGED <<sm_subscriptions, snapshot_queue, client_log>>

SubscribeRequest(c, id, T) ==
    [kind |-> "Subscribe", connection_id |-> c, subscription_id |-> id,
     component_type |-> T]
UnsubscribeRequest(c, id) ==
    [kind |-> "Unsubscribe", connection_id |-> c, subscription_id |-> id,
     component_type |-> NoType]

\* a Subscribe from connection c is handled: the entry is added and a
\* snapshot request is queued
HandleSubscribe(c, id, T) ==
    /\ c \in established_connections
    /\ Len(client_log) < MaxMsgs
    /\ sm_subscriptions' = add_subscription(sm_subscriptions,
                                            SubscriptionEntry(c, id, T, None))
    /\ snapshot_queue' = Append(snapshot_queue, SubscriptionEntry(c, id, T, None))
    /\ client_log' = Append(client_log, SubscribeRequest(c, id, T))
    /\ UNCHANGED <<established_connections, connection_count>>

\* an Unsubscribe from connection c is handled
HandleUnsubscribe(c, id) ==
    /\ c \in established_connections
    /\ Len(client_log) < MaxMsgs
    /\ sm_subscriptions' = remove_subscription(sm_subscriptions, c, id)
    /\ client_log' = Append(client_log, UnsubscribeRequest(c, id))
    /\ UNCHANGED <<established_connections, connection_count, snapshot_queue>>

\* connection c is reported disconnected: it leaves the established set and
\* its subscriptions are drained
HandleDisconnect(c) ==
    /\ c \in established_connections
    /\ established_connections' = established_connections \ {c}
    /\ sm_subscriptions' = remove_all_for_connection(sm_subscriptions, c)
    /\ UNCHANGED <<connection_count, snapshot_queue, client_log>>

\* the snapshot stage consumes the queued requests of the frame
SnapshotStage ==
    /\ Len(snapshot_queue) > 0
    /\ snapshot_queue' = <<>>
    /\ UNCHANGED <<established_connections, connection_count, sm_subscriptions,
                   client_log>>


\* ------------------------------------------------ server: mutations
DANGLING == -1                       \* SerializableEntity::DANGLING (bits = u64::MAX)
UnregisteredType == "Unregistered"   \* a type name without a registration

QueuedMutation(c, r, e, T, v) ==
    [connection_id |-> c, request_id |-> r, entity |-> e, component_type |-> T,
     value |-> v]

\* ConnectionId::is_server
is_server(connection_id) == connection_id = SERVER

\* variant: the test is inverted
ServerOnlyAuthorize_Inverted(mutation) ==
    IF ~is_server(mutation.connection_id) THEN "Ok" ELSE "Forbidden"

\* ServerOnlyMutationAuthorizer::authorize
ServerOnlyAuthorize(mutation) ==
    IF is_server(mutation.connection_id) THEN "Ok" ELSE "Forbidden"

\* the installed policy decides; without a policy every mutation is allowed
authorize(policy, mutation) ==
    IF policy = "ServerOnly" THEN ServerOnlyAuthorize(mutation) ELSE "Ok"

\* World::spawn takes an entity id that is not in use
FreshEntity(w) == CHOOSE e \in 1..(Cardinality(DOMAIN w) + 1) : e \notin DOMAIN w

\* variant: a missing entity is created while NotFound is reported
apply_typed_mutation_SpawnOnMissing(w, mutation) ==
    LET d == decode_from_slice(mutation.component_type, mutation.value)
        c == Insert(EmptyMap, mutation.component_type, d.val)
    IN  IF ~d.ok THEN [world |-> w, status |-> "ValidationError", touched |-> {}]
        ELSE IF mutation.entity = DANGLING
        THEN [world |-> Insert(w, FreshEntity(w), c), status |-> "Ok",
              touched |-> {<<FreshEntity(w), mutation.component_type>>}]
        ELSE IF mutation.entity \in DOMAIN w
        THEN [world |-> [w EXCEPT ![mutation.entity] =
                             Insert(@, mutation.component_type, d.val)],
              status |-> "Ok",
              touched |-> {<<mutation.entity, mutation.component_type>>}]
        ELSE [world |-> Insert(w, mutation.entity, c), status |-> "NotFound",
              touched |-> {<<mutation.entity, mutation.component_type>>}]

\* variant: without the DANGLING test
apply_typed_mutation_NoSpawn(w, mutation) ==
    LET d == decode_from_slice(mutation.component_type, mutation.value)
    IN  IF ~d.ok THEN [world |-> w, status |-> "ValidationError", touched |-> {}]
        ELSE IF mutation.entity \in DOMAIN w
        THEN [world |-> [w EXCEPT ![mutation.entity] =
                             Insert(@, mutation.component_type, d.val)],
              status |-> "Ok",
              touched |-> {<<mutation.entity, mutation.component_type>>}]
        ELSE [world |-> w, status |-> "NotFound", touched |-> {}]

\* variant: a component the entity already carries is kept
apply_typed_mutation_KeepExisting(w, mutation) ==
    LET d == decode_from_slice(mutation.component_type, mutation.value)
    IN  IF ~d.ok THEN [world |-> w, status |-> "ValidationError", touched |-> {}]
        ELSE IF mutation.entity = DANGLING
        THEN [world |-> Insert(w, FreshEntity(w),
                               Insert(EmptyMap, mutation.component_type, d.val)),
              status |-> "Ok",
              touched |-> {<<FreshEntity(w), mutation.component_type>>}]
        ELSE IF mutation.entity \in DOMAIN w
        THEN IF mutation.component_type \in DOMAIN w[mutation.entity]
             THEN [world |-> w, status |-> "Ok",
                   touched |-> {<<mutation.entity, mutation.component_type>>}]
             ELSE [world |-> [w EXCEPT ![mutation.entity] =
                                  Insert(@, mutation.component_type, d.val)],
                   status |-> "Ok",
                   touched |-> {<<mutation.entity, mutation.component_type>>}]
        ELSE [world |-> w, status |-> "NotFound", touched |-> {}]

\* variant: the entity is looked up before the payload is decoded
apply_typed_mutation_EntityFirst(w, mutation) ==
    LET d == decode_from_slice(mutation.component_type, mutation.value)
    IN  IF mutation.entity # DANGLING /\ mutation.entity \notin DOMAIN w
        THEN [world |-> w, status |-> "NotFound", touched |-> {}]
        ELSE IF ~d.ok
        THEN [world |-> w, status |-> "ValidationError", touched |-> {}]
        ELSE IF mutation.entity = DANGLING
        THEN [world |-> Insert(w, FreshEntity(w),
                               Insert(EmptyMap, mutation.component_type, d.val)),
              status |-> "Ok",
              touched |-> {<<FreshEntity(w), mutation.component_type>>}]
        ELSE [world |-> [w EXCEPT ![mutation.entity] =
                             Insert(@, mutation.component_type, d.val)],
              status |-> "Ok",
              touched |-> {<<mutation.entity, mutation.component_type>>}]

\* apply_typed_mutation::<T>
apply_typed_mutation(w, mutation) ==
    LET d == decode_from_slice(mutation.component_type, mutation.value)
    IN  IF ~d.ok THEN [world |-> w, status |-> "ValidationError", touched |-> {}]
        ELSE IF mutation.entity = DANGLING
        THEN [world |-> Insert(w, FreshEntity(w),
                               Insert(EmptyMap, mutation.component_type, d.val)),
              status |-> "Ok",
              touched |-> {<<FreshEntity(w), mutation.component_type>>}]
        ELSE IF mutation.entity \in DOMAIN w
        THEN [world |-> [w EXCEPT ![mutation.entity] =
                             Insert(@, mutation.component_type, d.val)],
              status |-> "Ok",
              touched |-> {<<mutation.entity, mutation.component_type>>}]
        ELSE [world |-> w, status |-> "NotFound", touched |-> {}]

InitMut ==
    /\ authorizer = "None"
    /\ mutation_queue = <<>>
    /\ world = Insert(EmptyMap, 7, Insert(EmptyMap, "DemoCounter", [value |-> 3]))
    /\ mutation_responses = <<>>
    /\ changed = {}
    /\ updates = <<>>

\* the application installs (or not) the built-in policy before the run
InitMutPolicies ==
    /\ authorizer \in {"None", "ServerOnly"}
    /\ mutation_queue = <<>>
    /\ world = Insert(EmptyMap, 7, Insert(EmptyMap, "DemoCounter", [value |-> 3]))
    /\ mutation_responses = <<>>
    /\ changed = {}
    /\ updates = <<>>

\* a Mutate message (or a server-side mutation) is queued
EnqueueMutation(m) ==
    /\ Len(mutation_queue) + Len(mutation_responses) < MaxMutations
    /\ mutation_queue' = Append(mutation_queue, m)
    /\ UNCHANGED <<authorizer, world, mutation_responses, changed, updates>>

\* variant: the response is enqueued once per stage of the pipeline
ProcessMutation_RespondTwice ==
    /\ Len(mutation_queue) > 0
    /\ LET m == Head(mutation_queue)
           r == [connection_id |-> m.connection_id, request_id |-> m.request_id,
                 status |-> "ValidationError", verdict |-> "NotConsulted",
                 mutation |-> m]
       IN  mutation_responses' = mutation_responses \o <<r, r>>
    /\ mutation_queue' = Tail(mutation_queue)
    /\ UNCHANGED <<authorizer, world, changed, updates>>

\* the mutation stage handles the oldest queued mutation: type lookup,
\* authorization, typed apply, response
ProcessMutation ==
    /\ Len(mutation_queue) > 0
    /\ LET m == Head(mutation_queue)
           known == m.component_type \in Types
           verdict == authorize(authorizer, m)
           applied == apply_typed_mutation(world, m)
           status == IF ~known THEN "ValidationError"
                     ELSE IF verdict # "Ok" THEN verdict
                     ELSE applied.status
       IN  /\ world' = IF known /\ verdict = "Ok" THEN applied.world ELSE world
           /\ changed' = IF known /\ verdict = "Ok"
                          THEN changed \cup applied.touched ELSE changed
           /\ mutation_responses' = Append(mutation_responses,
                 [connection_id |-> m.connection_id, request_id |-> m.request_id,
                  status |-> status,
                  verdict |-> IF known THEN verdict ELSE "NotConsulted",
                  mutation |-> m])
    /\ mutation_queue' = Tail(mutation_queue)
    /\ UNCHANGED <<authorizer, updates>>

\* order of type names within a batch
TypeRank(T) == IF T = "DemoCounter" THEN 1 ELSE 2

\* the change events of a frame, by entity id then type name, each carrying
\* the bincode encoding of the current value
RECURSIVE ChangeEvents(_, _)
ChangeEvents(w, pairs) ==
    IF pairs = {} THEN <<>>
    ELSE LET p == CHOOSE x \in pairs : \A y \in pairs :
                      \/ x[1] < y[1]
                      \/ (x[1] = y[1] /\ TypeRank(x[2]) <= TypeRank(y[2]))
         IN  <<[item |-> "Update", entity |-> p[1], component_type |-> p[2],
                value |-> encode_to_vec(p[2], w[p[1]][p[2]])]>>
             \o ChangeEvents(w, pairs \ {p})

\* change detection and dispatch of a frame: one Update per changed
\* (entity, type), then the change ticks are caught up
DispatchChanges ==
    /\ changed # {}
    /\ updates' = updates \o ChangeEvents(world, changed)
    /\ changed' = {}
    /\ UNCHANGED <<authorizer, mutation_queue, world, mutation_responses>>


\* ------------------------------------------------ server: one frame
\* the entity ids of a set, ascending
RECURSIVE Ascending(_)
Ascending(S) ==
    IF S = {} THEN <<>>
    ELSE LET m == CHOOSE x \in S : \A y \in S : x <= y
         IN  <<m>> \o Ascending(S \ {m})

\* variant: the query yields nothing
snapshot_typed_Nothing(w, T) == <<>>

\* snapshot_typed::<T>: (entity, bincode bytes) for every entity carrying T
snapshot_typed(w, T) ==
    LET carrying == Ascending({e \in DOMAIN w : T \in DOMAIN w[e]})
    IN  [i \in DOMAIN carrying |->
            <<carrying[i], encode_to_vec(T, w[carrying[i]][T])>>]

SyncSnapshot(id, e, T, v) ==
    [item |-> "Snapshot", subscription_id |-> id, entity |-> e,
     component_type |-> T, value |-> v]
SyncUpdate(id, e, T, v) ==
    [item |-> "Update", subscription_id |-> id, entity |-> e,
     component_type |-> T, value |-> v]

\* a subscription matches a (type, entity) pair
Matches(sub, T, e) ==
    /\ sub.component_type = T
    /\ (sub.entity = None \/ sub.entity = e)

\* snapshot stage: the Snapshot items of one request
SnapshotItems(w, request) ==
    LET found == snapshot_typed(w, request.component_type)
    IN  [i \in DOMAIN found |->
            SyncSnapshot(request.subscription_id, found[i][1],
                         request.component_type, found[i][2])]

\* snapshot stage: the items of every queued request of connection c
RECURSIVE PendingSnapshots(_, _, _)
PendingSnapshots(w, queue, c) ==
    IF Len(queue) = 0 THEN <<>>
    ELSE (IF Head(queue).connection_id = c THEN SnapshotItems(w, Head(queue))
          ELSE <<>>)
         \o PendingSnapshots(w, Tail(queue), c)

\* dispatcher: one change event fanned out to the matching subscriptions of c
RECURSIVE FanOut(_, _, _)
FanOut(event, subs, c) ==
    IF Len(subs) = 0 THEN <<>>
    ELSE (IF Head(subs).connection_id = c
             /\ Matches(Head(subs), event.component_type, event.entity)
          THEN <<SyncUpdate(Head(subs).subscription_id, event.entity,
                            event.component_type, event.value)>>
          ELSE <<>>)
         \o FanOut(event, Tail(subs), c)

\* dispatcher: the Update items of connection c for the change events
RECURSIVE UpdateItems(_, _, _)
UpdateItems(events, subs, c) ==
    IF Len(events) = 0 THEN <<>>
    ELSE FanOut(Head(events), subs, c) \o UpdateItems(Tail(events), subs, c)

\* dispatcher: the batch of connection c, the pending snapshots prepended
BatchFor(w, queue, subs, events, c) ==
    PendingSnapshots(w, queue, c) \o UpdateItems(events, subs, c)

\* the non-empty batches of a frame, by connection
RECURSIVE FrameBatches(_, _, _, _, _)
FrameBatches(w, queue, subs, events, conns) ==
    IF Len(conns) = 0 THEN <<>>
    ELSE LET items == BatchFor(w, queue, subs, events, Head(conns))
         IN  (IF Len(items) = 0 THEN <<>>
              ELSE <<[connection_id |-> Head(conns), items |-> items]>>)
             \o FrameBatches(w, queue, subs, events, Tail(conns))

\* the stages of one frame that produce its batches: change detection, the
\* snapshot stage and the dispatcher; the mutation stage runs between the
\* snapshot stage and the dispatcher and its changes are detected by the
\* next frame
DispatchFrame ==
    /\ Len(snapshot_queue) > 0 \/ changed # {}
    /\ LET events == ChangeEvents(world, changed)
       IN  /\ batches' = batches \o FrameBatches(world, snapshot_queue,
                              sm_subscriptions, events,
                              Ascending(established_connections))
           /\ updates' = updates \o events
    /\ snapshot_queue' = <<>>
    /\ changed' = {}
    /\ UNCHANGED <<established_connections, connection_count, sm_subscriptions,
                   client_log, authorizer, mutation_queue, world,
                   mutation_responses>>


\* ------------------------------------------------ server: SyncRegistry
\* Rust types by module path; TypeId is the identity of the path
ServerTypes ==
    {<<"demo_shared", "DemoCounter">>, <<"demo_shared", "DemoFlag">>,
     <<"legacy", "DemoCounter">>}

TypeId_of(T) == T

\* type_name::<T>().rsplit("::").next(): the last path segment
short_type_name(T) == T[Len(T)]

ComponentRegistration(T) ==
    [type_id |-> TypeId_of(T), type_name |-> short_type_name(T)]

\* SyncRegistry::register_component
SyncRegistry_register_component(components, registration) ==
    IF \E i \in DOMAIN components : components[i].type_id = registration.type_id
    THEN components
    ELSE Append(components, registration)

\* systems::register_component_system::<T>: the typed system is added to the
\* schedule
register_component_system(systems, T) == Append(systems, TypeId_of(T))

InitRegistry ==
    /\ sync_components = <<>>
    /\ change_systems = <<>>

\* register_component::<T>(app, config), as called by sync_component::<T>
register_component(T) ==
    /\ Len(change_systems) < MaxRegistrations
    /\ sync_components' = SyncRegistry_register_component(sync_components,
                                ComponentRegistration(T))
    /\ change_systems' = register_component_system(change_systems, T)

\* ------------------------------------------------ wire codec (codec/binary.rs)
\* a u64 of 2^24 or more (no length met here reaches it)
HugeU64 == 0 - 1

\* u64::from_le_bytes
u64_from_le_bytes(bs) ==
    IF \A i \in 4..8 : bs[i] = 0 THEN LittleEndian(SubSeq(bs, 1, 3)) ELSE HugeU64

\* u64::to_le_bytes
u64_to_le_bytes(u) == ToLittleEndian(u, 8)

\* bincode 1 (fixed-width integers): a u64 is its 8 little-endian bytes
Bincode1U64(bs) ==
    IF Len(bs) < 8 THEN DecodeErr
    ELSE [ok |-> TRUE, val |-> u64_from_le_bytes(SubSeq(bs, 1, 8)),
          rest |-> SubSeq(bs, 9, Len(bs))]

\* bincode 1: a Vec<u8> is a u64 length and that many bytes
Bincode1Bytes(bs) ==
    LET l == Bincode1U64(bs)
    IN  IF ~l.ok THEN DecodeErr
        ELSE IF l.val = HugeU64 \/ Len(l.rest) < l.val THEN DecodeErr
        ELSE [ok |-> TRUE, val |-> SubSeq(l.rest, 1, l.val),
              rest |-> SubSeq(l.rest, l.val + 1, Len(l.rest))]

\* bincode 1: a String is a Vec<u8> holding well-formed UTF-8
Bincode1String(bs) ==
    LET v == Bincode1Bytes(bs)
    IN  IF ~v.ok THEN DecodeErr
        ELSE IF ~Utf8Valid(v.val) THEN DecodeErr
        ELSE v

NetworkPacket(type_name, schema_hash, data) ==
    [type_name |-> type_name, schema_hash |-> schema_hash, data |-> data]

\* bincode::serialize(&NetworkPacket): the fields in declaration order
bincode_serialize(packet) ==
    u64_to_le_bytes(Len(packet.type_name)) \o packet.type_name
    \o u64_to_le_bytes(packet.schema_hash)
    \o u64_to_le_bytes(Len(packet.data)) \o packet.data

\* bincode::deserialize::<NetworkPacket>: bytes after the value are allowed
bincode_deserialize(bs) ==
    LET n == Bincode1String(bs)
    IN  IF ~n.ok THEN DecodeErr
        ELSE LET h == Bincode1U64(n.rest)
             IN  IF ~h.ok THEN DecodeErr
                 ELSE LET v == Bincode1Bytes(h.rest)
                      IN  IF ~v.ok THEN DecodeErr
                          ELSE [ok |-> TRUE,
                                val |-> NetworkPacket(n.val, h.val, v.val)]

\* variant: the prefix counts itself
EventworkBincodeCodec_encode_CountPrefix(packet) ==
    LET encoded_packet == bincode_serialize(packet)
    IN  u64_to_le_bytes(Len(encoded_packet) + 8) \o encoded_packet

\* <EventworkBincodeCodec as Encoder<NetworkPacket>>::encode
EventworkBincodeCodec_encode(packet) ==
    LET encoded_packet == bincode_serialize(packet)
    IN  u64_to_le_bytes(Len(encoded_packet)) \o encoded_packet

\* <EventworkBincodeCodec as Decoder<NetworkPacket>>::decode
EventworkBincodeCodec_decode(val) ==
    IF Len(val) < 8 THEN DecodeErr
    ELSE bincode_deserialize(SubSeq(val, 9, Len(val)))

\* before the call: no packet, no frame, no result
NoPacket == <<>>
NoBytes == <<0 - 1>>
NotDecoded == <<>>

InitCodec ==
    /\ codec_packet = NoPacket
    /\ codec_encoded = NoBytes
    /\ codec_received = NoBytes
    /\ codec_decoded = NotDecoded

\* the sender encodes a packet
Encode(packet) ==
    /\ codec_packet = NoPacket
    /\ codec_packet' = <<packet>>
    /\ codec_encoded' = EventworkBincodeCodec_encode(packet)
    /\ UNCHANGED <<codec_received, codec_decoded>>

\* the transport hands a frame to the receiver
Receive(frame) ==
    /\ codec_encoded # NoBytes
    /\ codec_received = NoBytes
    /\ codec_received' = frame
    /\ UNCHANGED <<codec_packet, codec_encoded, codec_decoded>>

\* the receiver decodes the frame
Decode ==
    /\ codec_received # NoBytes
    /\ codec_decoded = NotDecoded
    /\ codec_decoded' = <<EventworkBincodeCodec_decode(codec_received)>>
    /\ UNCHANGED <<codec_packet, codec_encoded, codec_received>>

\* ------------------------------------------------ Network: message registration
\* message types by module path
MessageTypes ==
    {<<"game", "Move">>, <<"game", "Spawn">>, <<"chat", "Say">>, <<"legacy", "Move">>}

\* EventworkMessage::type_name: the full path of the type
type_name_of(T) == T

\* EventworkMessage::short_name: the last path segment
short_name_of(T) == T[Len(T)]

\* EventworkMessage::schema_hash: a hash of the short name (equal short names
\* give equal hashes; other collisions are not represented)
schema_hash_of(T) == <<"hash", short_name_of(T)>>

NoPanic == <<>>
DuplicateRegistration(T) ==
    <<[message |-> "Duplicate registration of message", name |-> type_name_of(T)]>>
SchemaHashCollision(T) ==
    <<[message |-> "Schema hash collision", name |-> type_name_of(T)]>>

InitMessages ==
    /\ recv_message_map = {}
    /\ recv_message_map_by_hash = {}
    /\ hash_to_typename = EmptyMap
    /\ receive_systems = <<>>
    /\ net_panic = NoPanic
    /\ last_registration = <<>>

\* variant: a registered name is registered again
register_message_internal_NoDuplicateTest(T) ==
    /\ recv_message_map' = recv_message_map \cup {type_name_of(T)}
    /\ recv_message_map_by_hash' = recv_message_map_by_hash \cup {schema_hash_of(T)}
    /\ hash_to_typename' = Insert(hash_to_typename, schema_hash_of(T), type_name_of(T))
    /\ receive_systems' = Append(receive_systems, type_name_of(T))
    /\ UNCHANGED net_panic

\* register_message_internal::<T, NP>
register_message_internal(T) ==
    IF type_name_of(T) \in recv_message_map
    THEN /\ net_panic' = DuplicateRegistration(T)
         /\ UNCHANGED <<recv_message_map, recv_message_map_by_hash,
                        hash_to_typename, receive_systems>>
    ELSE IF /\ schema_hash_of(T) \in DOMAIN hash_to_typename
            /\ hash_to_typename[schema_hash_of(T)] # type_name_of(T)
    THEN /\ net_panic' = SchemaHashCollision(T)
         /\ UNCHANGED <<recv_message_map, recv_message_map_by_hash,
                        hash_to_typename, receive_systems>>
    ELSE /\ recv_message_map' = recv_message_map \cup {type_name_of(T)}
         /\ recv_message_map_by_hash' =
                recv_message_map_by_hash \cup {schema_hash_of(T)}
         /\ hash_to_typename' =
                Insert(hash_to_typename, schema_hash_of(T), type_name_of(T))
         /\ receive_systems' = Append(receive_systems, type_name_of(T))
         /\ UNCHANGED net_panic

\* App::register_network_message::<T, NP>, the explicit registration call
register_network_message(T) ==
    /\ net_panic = NoPanic
    /\ register_message_internal(T)
    /\ last_registration' = <<[call |-> "register_network_message", type |-> T]>>

\* register_auto_if_needed::<T, NP>
register_auto_if_needed(T) ==
    /\ net_panic = NoPanic
    /\ IF type_name_of(T) \in recv_message_map
       THEN UNCHANGED <<recv_message_map, recv_message_map_by_hash,
                        hash_to_typename, receive_systems, net_panic>>
       ELSE register_message_internal(T)
    /\ last_registration' = <<[call |-> "register_auto_if_needed", type |-> T]>>

\* ------------------------------------------------ use_sync_component_write (hooks.rs)
FieldDefault == 0        \* T::default()

\* the hook is called: both effects are created and scheduled
InitField ==
    /\ server_value = NoneOpt
    /\ local_value = FieldDefault
    /\ is_editing = FALSE
    /\ sync_effect_pending = TRUE
    /\ commit_effect_pending = TRUE
    /\ is_first_run = TRUE
    /\ field_mutations = <<>>
    /\ user_editing = FALSE
    /\ local_writer = "default"

\* the typed view changes this entity's component: server_value is derived
\* from it and the effect that reads it is scheduled
ServerValueChanges(v) ==
    /\ server_value # Some(v)
    /\ server_value' = Some(v)
    /\ sync_effect_pending' = TRUE
    /\ UNCHANGED <<local_value, is_editing, commit_effect_pending, is_first_run,
                   field_mutations, user_editing, local_writer>>

\* the effect "sync server -> local when not editing" runs
SyncEffect ==
    /\ sync_effect_pending
    /\ sync_effect_pending' = FALSE
    /\ IF ~is_editing /\ server_value.some
       THEN local_value' = server_value.val /\ local_writer' = "server"
       ELSE UNCHANGED <<local_value, local_writer>>
    /\ UNCHANGED <<server_value, is_editing, commit_effect_pending, is_first_run,
                   field_mutations, user_editing>>

\* on:input: the user types, the view updates local_value
UserInput(v) ==
    /\ local_value' = v
    /\ local_writer' = "user"
    /\ user_editing' = TRUE
    /\ UNCHANGED <<server_value, is_editing, sync_effect_pending,
                   commit_effect_pending, is_first_run, field_mutations>>

\* on:blur: the view sets the commit trigger, which ends the edit
CommitTrigger ==
    /\ user_editing
    /\ commit_effect_pending' = TRUE
    /\ user_editing' = FALSE
    /\ UNCHANGED <<server_value, local_value, is_editing, sync_effect_pending,
                   is_first_run, field_mutations, local_writer>>

\* the commit effect runs: nothing on its first run, else ctx.mutate with the
\* local value and set_is_editing.set(false), which schedules the sync effect
CommitEffect ==
    /\ commit_effect_pending
    /\ commit_effect_pending' = FALSE
    /\ IF is_first_run
       THEN /\ is_first_run' = FALSE
            /\ UNCHANGED <<is_editing, sync_effect_pending, field_mutations>>
       ELSE /\ Len(field_mutations) < MaxCommits
            /\ field_mutations' = Append(field_mutations, local_value)
            /\ is_editing' = FALSE
            /\ sync_effect_pending' = TRUE
            /\ UNCHANGED is_first_run
    /\ UNCHANGED <<server_value, local_value, user_editing, local_writer>>

\* ------------------------------------------------ clone, DevtoolsSync, threads
NoClone == <<>>

InitClone ==
    /\ clone_client = NoClone
    /\ clone_calls = <<>>

\* use_sync: a new SyncClient and an empty reactive map
InitDevtools ==
    /\ reactive_mutations = EmptyMap
    /\ devtools_pending = <<>>
    /\ devtools_log = <<>>

MaxThreads == 2        \* threads that call mutate on one SyncClient
Threads == 1..MaxThreads
NotCalled == [pc |-> "idle"]

InitThreads == threads = [t \in Threads |-> NotCalled]

\* Network::new, the fields of the connection lifecycle
InitNet ==
    /\ server_handle = FALSE
    /\ new_connections = 0
    /\ disconnected_connections = <<>>
    /\ network_events = <<>>
    /\ recv_finished = {}
    /\ packet_log = <<>>
    /\ net_started = FALSE

InitRest ==
    /\ InitRegistry /\ InitCodec /\ InitMessages /\ InitField
    /\ InitClone /\ InitDevtools /\ InitThreads /\ InitNet


\* ------------------------------------------------ SyncClient (client_sync.rs)
\* serde_json values: an object maps field names to tagged scalars
JNum(n) == [t |-> "num", v |-> n]
JStr(str) == [t |-> "str", v |-> str]
JBool(b) == [t |-> "bool", v |-> b]

EncodeErr == [ok |-> FALSE]

\* serde_json::from_value::<T>: every field of T must be present with the
\* right kind of value
from_value(T, json) ==
    IF T = "DemoCounter"
    THEN IF "value" \in DOMAIN json /\ json["value"].t = "num"
         THEN [ok |-> TRUE, val |-> [value |-> json["value"].v]]
         ELSE EncodeErr
    ELSE IF /\ "label" \in DOMAIN json /\ json["label"].t = "str"
            /\ "enabled" \in DOMAIN json /\ json["enabled"].t = "bool"
         THEN [ok |-> TRUE,
               val |-> [label |-> json["label"].v, enabled |-> json["enabled"].v]]
         ELSE EncodeErr

\* ComponentTypeRegistry::serialize_by_name: JSON -> T -> bincode bytes
serialize_by_name(reg, type_name, json_value) ==
    IF type_name \notin reg THEN EncodeErr
    ELSE LET v == from_value(type_name, json_value)
         IN  IF v.ok THEN [ok |-> TRUE, val |-> encode_to_vec(type_name, v.val)]
             ELSE EncodeErr

\* the types registered with the SyncClient's ComponentTypeRegistry
TrackerRegistry == Types

\* MutationState::new_pending
new_pending(request_id) ==
    [request_id |-> request_id, status |-> NoneOpt, message |-> NoneOpt]

MutationResponse(request_id, status, message) ==
    [request_id |-> request_id, status |-> status, message |-> message]

MutateComponent(request_id, entity, component_type, value) ==
    [kind |-> "Mutate", request_id |-> request_id, entity |-> entity,
     component_type |-> component_type, value |-> value]

InitTracker ==
    /\ next_request_id = 0
    /\ mutations = EmptyMap
    /\ client_sent = <<>>
    /\ mutate_calls = <<>>
    /\ responses_handled = <<>>

\* variant: the id is read before it is incremented
mutate_PostIncrement(entity, component_type, value) ==
    LET request_id == next_request_id
        value_bytes == serialize_by_name(TrackerRegistry, component_type, value)
    IN  /\ next_request_id' = next_request_id + 1
        /\ mutations' = Insert(mutations, request_id, new_pending(request_id))
        /\ client_sent' =
              IF value_bytes.ok
              THEN Append(client_sent,
                          MutateComponent(Some(request_id), entity,
                                          component_type, value_bytes.val))
              ELSE client_sent
        /\ mutate_calls' = Append(mutate_calls,
              [returned |-> request_id, serialized |-> value_bytes.ok])
        /\ UNCHANGED responses_handled

\* SyncClient::mutate
mutate(entity, component_type, value) ==
    LET request_id == next_request_id + 1
        value_bytes == serialize_by_name(TrackerRegistry, component_type, value)
    IN  /\ next_request_id' = request_id
        /\ mutations' = Insert(mutations, request_id, new_pending(request_id))
        /\ client_sent' =
              IF value_bytes.ok
              THEN Append(client_sent,
                          MutateComponent(Some(request_id), entity,
                                          component_type, value_bytes.val))
              ELSE client_sent
        /\ mutate_calls' = Append(mutate_calls,
              [returned |-> request_id, serialized |-> value_bytes.ok])
        /\ UNCHANGED responses_handled

\* variant: the response's message is not stored
handle_mutation_response_DropMessage(muts, response) ==
    IF ~response.request_id.some THEN muts
    ELSE Insert(muts, response.request_id.val,
                [request_id |-> response.request_id.val,
                 status |-> Some(response.status),
                 message |-> NoneOpt])

\* SyncClient::handle_mutation_response, on the state map
handle_mutation_response(muts, response) ==
    IF ~response.request_id.some THEN muts
    ELSE Insert(muts, response.request_id.val,
                [request_id |-> response.request_id.val,
                 status |-> Some(response.status),
                 message |-> response.message])

\* SyncClient::handle_server_message with a MutationResponse
HandleResponse(response) ==
    /\ mutations' = handle_mutation_response(mutations, response)
    /\ responses_handled' = Append(responses_handled, response)
    /\ UNCHANGED <<next_request_id, client_sent, mutate_calls>>


\* ------------------------------------------------ client specification
InitIngress ==
    /\ raw_message = NoMessage
    /\ msg_pending = FALSE
    /\ last_error = NoError

InitClient ==
    /\ ready_state = "Closed"
    /\ open_count = 0
    /\ subscriptions = EmptyMap
    /\ next_subscription_id = 0
    /\ signal_cache = EmptyMap
    /\ strong_arcs = {}
    /\ signals = <<>>
    /\ binds = <<>>
    /\ sent = <<>>
    /\ component_data = EmptyMap
    /\ registry = ClientRegistryOf(Types)
    /\ bind_log = <<>>

notSubscribing == <<ingressVars, subVars, mutVars, trackerVars, frameVars, restVars>>
notClient == <<notSubscribing, historyVars>>

BindStep ==
    \E T \in Types : Len(binds) < MaxBinds /\ Bind(T) /\ UNCHANGED notClient
TeardownStep ==
    \E b \in DOMAIN binds : Teardown(b) /\ UNCHANGED notClient
SubscribeEffectStep ==
    \E b \in DOMAIN binds : RunSubscribeEffect(b) /\ UNCHANGED notClient
ProjectionEffectStep ==
    \E b \in DOMAIN binds : RunProjectionEffect(b) /\ UNCHANGED notClient
ConnectingStep == TransportConnecting /\ UNCHANGED notClient
OpenStep == TransportOpen /\ UNCHANGED notClient
ClosingStep == TransportClosing /\ UNCHANGED notClient
ClosedStep == TransportClosed /\ UNCHANGED notClient

Init ==
    InitClient /\ InitIngress /\ InitSub /\ InitMut /\ InitTracker /\ InitRest

Next ==
    \/ BindStep
    \/ TeardownStep
    \/ SubscribeEffectStep
    \/ ProjectionEffectStep
    \/ ConnectingStep
    \/ OpenStep
    \/ ClosingStep
    \/ ClosedStep

Spec == Init /\ [][Next]_vars

\* ------------------------------------------------ claims about the client
LiveBinds(T) == {b \in DOMAIN binds : binds[b].alive /\ binds[b].type = T}

\* number of Subscribe messages for T carrying id that were sent in Open period c
SubscribesSent(T, id, c) ==
    Cardinality({i \in DOMAIN sent :
        /\ sent[i].kind = "Subscribe" /\ sent[i].component_type = T
        /\ sent[i].subscription_id = id /\ sent[i].conn = c})

\* C1: within one Open period of the transport a bound component type has at
\* most one Subscribe-sending effect and at most one Subscribe sent, however
\* many UI components bind it; once the first bind's effect has run while
\* Open there is exactly one, and the further binds have added none.
C1_OneSubscribePerType ==
    \A T \in DOMAIN subscriptions :
        /\ Cardinality({b \in LiveBinds(T) : binds[b].hasSubEffect}) <= 1
        /\ SubscribesSent(T, subscriptions[T].id, open_count) <= 1
        /\ (/\ ready_state = "Open"
            /\ \E b \in LiveBinds(T) : binds[b].hasSubEffect /\ ~binds[b].subPending)
           => SubscribesSent(T, subscriptions[T].id, open_count) = 1

C1_Witness ==
    \E T \in DOMAIN subscriptions :
        /\ ready_state = "Open"
        /\ subscriptions[T].ref_count >= 2
        /\ Cardinality(LiveBinds(T)) >= 2
        /\ SubscribesSent(T, subscriptions[T].id, open_count) = 1

\* Subscribe messages for T that no later Unsubscribe has cancelled
Outstanding(T) ==
    {i \in DOMAIN sent :
        /\ sent[i].kind = "Subscribe" /\ sent[i].component_type = T
        /\ ~\E j \in DOMAIN sent :
              /\ j > i /\ sent[j].kind = "Unsubscribe"
              /\ sent[j].subscription_id = sent[i].subscription_id}

\* C2: a teardown that leaves the type's reference count above zero sends
\* nothing; the teardown that takes it to zero sends exactly one message, an
\* Unsubscribe, whose subscription_id is the one carried by every Subscribe
\* sent for the type since it was first bound.
C2_UnsubscribeOnLastTeardown ==
    [][\A T \in DOMAIN subscriptions :
          /\ (T \in DOMAIN subscriptions'
                /\ subscriptions'[T].ref_count < subscriptions[T].ref_count)
             => sent' = sent
          /\ (T \notin DOMAIN subscriptions')
             => /\ Len(sent') = Len(sent) + 1
                /\ sent'[Len(sent')].kind = "Unsubscribe"
                /\ sent'[Len(sent')].subscription_id = subscriptions[T].id
                /\ \A i \in Outstanding(T) :
                      sent[i].subscription_id = sent'[Len(sent')].subscription_id
      ]_vars

\* two binds of one type lived together, both are gone, and the Subscribe
\* for the type has been answered by its Unsubscribe
C2_Witness ==
    \E b \in DOMAIN binds :
        /\ binds[b].nth >= 2
        /\ LiveBinds(binds[b].type) = {}
        /\ \E i, j \in DOMAIN sent :
              /\ i < j
              /\ sent[i].kind = "Subscribe" /\ sent[i].component_type = binds[b].type
              /\ sent[j].kind = "Unsubscribe"
              /\ sent[j].subscription_id = sent[i].subscription_id

\* C3: binds of one component type that are alive together hold the same
\* typed view (one underlying map).
C3_SameViewForSameType ==
    \A b1, b2 \in DOMAIN binds :
        (binds[b1].alive /\ binds[b2].alive /\ binds[b1].type = binds[b2].type)
            => binds[b1].view = binds[b2].view


\* ------------------------------------------------ reconnection specification
\* the subscription side of the client, with the transport state of every
\* bind on record
LoggedBindStep ==
    \E T \in Types :
        /\ Len(binds) < MaxBinds
        /\ Bind(T)
        /\ bind_log' = Append(bind_log, ready_state = "Open")
        /\ UNCHANGED notSubscribing

NextReconnect ==
    \/ LoggedBindStep
    \/ TeardownStep
    \/ SubscribeEffectStep
    \/ ConnectingStep
    \/ OpenStep
    \/ ClosingStep
    \/ ClosedStep

SpecReconnect == Init /\ [][NextReconnect]_vars

\* the step has handed one more message to the send function
Sent == Len(sent') = Len(sent) + 1 /\ SubSeq(sent', 1, Len(sent)) = sent
LastSent == sent'[Len(sent')]
\* ids carried by the messages sent so far
IdsSent == {sent[i].subscription_id : i \in DOMAIN sent}

\* C18: while a component type stays bound its subscription_id does not
\* change; every Subscribe sent for the type carries that id, and so does
\* the Unsubscribe; the entry is given up only by the teardown that takes
\* the count from one to zero, and a newly bound type gets an id that no
\* earlier message carried.
C18_OneIdPerSubscription ==
    [][/\ \A T \in DOMAIN subscriptions :
             /\ T \in DOMAIN subscriptions'
                   => subscriptions'[T].id = subscriptions[T].id
             /\ T \notin DOMAIN subscriptions'
                   => /\ subscriptions[T].ref_count = 1
                      /\ Sent /\ LastSent.kind = "Unsubscribe"
                      /\ LastSent.subscription_id = subscriptions[T].id
       /\ \A T \in DOMAIN subscriptions' \ DOMAIN subscriptions :
             subscriptions'[T].id \notin IdsSent
       /\ (Sent /\ LastSent.kind = "Subscribe")
             => /\ LastSent.component_type \in DOMAIN subscriptions
                /\ LastSent.subscription_id
                      = subscriptions[LastSent.component_type].id
       /\ (Sent /\ LastSent.kind = "Unsubscribe")
             => \E T \in DOMAIN subscriptions \ DOMAIN subscriptions' :
                    LastSent.subscription_id = subscriptions[T].id
      ]_vars

\* the second type bound (id 1) was subscribed in two Open periods and then
\* unsubscribed, all with its id
C18_Witness ==
    \E i, j, k \in DOMAIN sent :
        /\ i < j /\ j < k
        /\ sent[i].kind = "Subscribe" /\ sent[i].subscription_id = 1
        /\ sent[j].kind = "Subscribe" /\ sent[j].subscription_id = 1
        /\ sent[i].component_type = sent[j].component_type
        /\ sent[i].conn # sent[j].conn
        /\ sent[k].kind = "Unsubscribe" /\ sent[k].subscription_id = 1

\* the step is a bind; the step runs the Subscribe effect of bind b
Bound == Len(binds') = Len(binds) + 1
SubscribeEffectRan(b) ==
    /\ binds[b].subPending /\ binds'[b].alive /\ ~binds'[b].subPending
    /\ ready_state' = ready_state

\* C19: a first bind made while the transport is not Open sends nothing at
\* bind time; its effect sends the Subscribe when it runs with the transport
\* Open and nothing otherwise, and no Open period sees more than one
\* Subscribe for it.
C19_SubscribeDeferredToOpen ==
    /\ [](\A b \in DOMAIN binds :
            (binds[b].alive /\ binds[b].hasSubEffect /\ ~bind_log[b])
            => \A c \in 0..open_count :
                  SubscribesSent(binds[b].type,
                                 subscriptions[binds[b].type].id, c) <= 1)
    /\ [][/\ (Bound /\ ready_state # "Open") => sent' = sent
          /\ \A b \in DOMAIN binds :
                (SubscribeEffectRan(b) /\ ~bind_log[b])
                => IF ready_state = "Open"
                   THEN sent' = Append(sent,
                           SubscribeMsg(subscriptions[binds[b].type].id,
                                        binds[b].type))
                   ELSE sent' = sent
         ]_vars

\* a first bind made before the transport ever opened has had its Subscribe
\* sent once in each of two Open periods
C19_Witness ==
    \E b \in DOMAIN binds :
        /\ binds[b].alive /\ binds[b].hasSubEffect /\ ~bind_log[b]
        /\ open_count = 2
        /\ SubscribesSent(binds[b].type, subscriptions[binds[b].type].id, 1) = 1
        /\ SubscribesSent(binds[b].type, subscriptions[binds[b].type].id, 2) = 1

\* C20: after a transition to Open that follows a disconnect, once no
\* Subscribe effect is waiting to run, every component type that has been
\* bound since before the transition (its bind was made while the transport
\* was not Open) has had a Subscribe with its subscription_id sent in this
\* Open period.
C20_ResubscribeOnReconnect ==
    (ready_state = "Open" /\ open_count >= 2)
    => \A b \in DOMAIN binds :
          (/\ binds[b].alive /\ ~bind_log[b]
           /\ ~\E o \in LiveBinds(binds[b].type) : binds[o].subPending)
          => SubscribesSent(binds[b].type, subscriptions[binds[b].type].id,
                            open_count) >= 1

\* ------------------------------------------------ ingress specification
MessageStep == \E msg \in ServerMessages : OnMessage(msg)
MessageEffectStep == RunMessageEffect

NextIngress ==
    \/ MessageStep
    \/ MessageEffectStep

SpecIngress == Init /\ [][NextIngress]_vars

\* the raw store a batch is meant to leave behind, items applied left to right
ApplyItem(data, it) ==
    CASE it.item \in {"Snapshot", "Update"} ->
            Insert(data, <<it.entity, it.component_type>>, it.value)
      [] it.item = "ComponentRemoved" ->
            Remove(data, <<it.entity, it.component_type>>)
      [] OTHER ->
            [k \in {x \in DOMAIN data : x[1] # it.entity} |-> data[k]]

RECURSIVE ApplyItems(_, _)
ApplyItems(data, items) ==
    IF Len(items) = 0 THEN data
    ELSE ApplyItems(ApplyItem(data, Head(items)), Tail(items))

\* C4: when the handler has processed a SyncBatch, the raw store is the old
\* raw store with the batch items applied left to right (Snapshot and Update
\* set the entry, ComponentRemoved deletes it, EntityRemoved deletes every
\* entry of the entity).
C4_RawStoreFollowsBatch ==
    [][(msg_pending /\ ~msg_pending' /\ raw_message.kind = "SyncBatch")
          => component_data' = ApplyItems(component_data, raw_message.items)]_vars


\* ------------------------------------------------ projection specification
\* raw-store contents and registries the projection effect is run on
RawValues == {<<4>>, <<0, 1>>, <<251, 1>>}
RawKeys == Entities \X Types
RawStores ==
    UNION {[ks -> RawValues] : ks \in SUBSET RawKeys}
Registries == {ClientRegistryOf(Types), ClientRegistryOf({"DemoCounter"})}

InitProj ==
    /\ InitIngress
    /\ InitTracker
    /\ InitSub
    /\ InitMut
    /\ InitRest
    /\ ready_state = "Closed"
    /\ open_count = 0
    /\ subscriptions = EmptyMap
    /\ next_subscription_id = 0
    /\ signal_cache = EmptyMap
    /\ strong_arcs = {}
    /\ signals = <<>>
    /\ binds = <<>>
    /\ sent = <<>>
    /\ component_data \in RawStores
    /\ registry \in Registries
    /\ bind_log = <<>>

NextProj ==
    \/ BindStep
    \/ ProjectionEffectStep
    \/ TeardownStep

SpecProj == InitProj /\ [][NextProj]_vars

\* entities whose raw entry under T's name deserializes
Decodable(T) ==
    {e \in Entities :
        /\ <<e, T>> \in DOMAIN component_data
        /\ deserialize(registry, T, T, component_data[<<e, T>>]).ok}

\* C5: once the projection effect of a bind of type T has run, its typed view
\* holds exactly the entities whose raw entry under T's name deserializes,
\* each with the decoded value; entries that fail are left out and the other
\* entries are still there.
C5_ViewIsDecodableEntries ==
    \A b \in DOMAIN binds :
        (binds[b].alive /\ binds[b].hasProjEffect /\ ~binds[b].projPending)
            => /\ DOMAIN signals[binds[b].view] = Decodable(binds[b].type)
               /\ \A e \in Decodable(binds[b].type) :
                     signals[binds[b].view][e] =
                         deserialize(registry, binds[b].type, binds[b].type,
                                     component_data[<<e, binds[b].type>>]).val

\* a view built from a raw store in which one entry of the type fails to
\* deserialize and another one succeeds
C5_Witness ==
    \E b \in DOMAIN binds :
        /\ binds[b].alive /\ binds[b].hasProjEffect /\ ~binds[b].projPending
        /\ \E e1, e2 \in Entities :
              /\ <<e1, binds[b].type>> \in DOMAIN component_data
              /\ e1 \notin Decodable(binds[b].type)
              /\ e2 \in Decodable(binds[b].type)
              /\ e2 \in DOMAIN signals[binds[b].view]
              /\ e1 \notin DOMAIN signals[binds[b].view]


\* ------------------------------------------------ subscription-manager specification
notSub == <<clientVars, ingressVars, mutVars, trackerVars, historyVars, frameVars, restVars>>

AcceptStep == AcceptConnection /\ UNCHANGED notSub
SubscribeStep ==
    \E c \in ConnIds, id \in SubIds, T \in Types :
        HandleSubscribe(c, id, T) /\ UNCHANGED notSub
UnsubscribeStep ==
    \E c \in ConnIds, id \in SubIds : HandleUnsubscribe(c, id) /\ UNCHANGED notSub
DisconnectStep ==
    \E c \in ConnIds : HandleDisconnect(c) /\ UNCHANGED notSub
SnapshotStageStep == SnapshotStage /\ UNCHANGED notSub

NextSub ==
    \/ AcceptStep
    \/ SubscribeStep
    \/ UnsubscribeStep
    \/ DisconnectStep
    \/ SnapshotStageStep

SpecSub == Init /\ [][NextSub]_vars

HasEntry(subs, c, id) ==
    \E i \in DOMAIN subs :
        subs[i].connection_id = c /\ subs[i].subscription_id = id

\* C6: the subscription manager never holds two entries with the same
\* connection and the same subscription_id.
C6_AtMostOneEntryPerKey ==
    \A i, j \in DOMAIN sm_subscriptions :
        (/\ sm_subscriptions[i].connection_id = sm_subscriptions[j].connection_id
         /\ sm_subscriptions[i].subscription_id = sm_subscriptions[j].subscription_id)
            => i = j

\* Subscribe messages of connection c for type T that no later Unsubscribe of
\* c with the same subscription_id has matched
Unmatched(c, T) ==
    {i \in DOMAIN client_log :
        /\ client_log[i] \in {SubscribeRequest(c, id, T) : id \in SubIds}
        /\ ~\E j \in DOMAIN client_log :
              /\ j > i
              /\ client_log[j] = UnsubscribeRequest(c, client_log[i].subscription_id)}

EntriesOf(c, T) ==
    {i \in DOMAIN sm_subscriptions :
        /\ sm_subscriptions[i].connection_id = c
        /\ sm_subscriptions[i].component_type = T}

\* C7: after every Subscribe or Unsubscribe a connected client has sent, the
\* number of entries the server holds for the client and a component type is
\* the number of the client's Subscribe messages for that type that no later
\* Unsubscribe with the same subscription_id has matched.
C7_CountEqualsUnmatched ==
    \A c \in established_connections, T \in Types :
        Cardinality(EntriesOf(c, T)) = Cardinality(Unmatched(c, T))

\* a Subscribe matched by an Unsubscribe and another one still unmatched
C7_Witness ==
    \E c \in established_connections, T \in Types :
        /\ Cardinality(EntriesOf(c, T)) = 1
        /\ \E i, j \in DOMAIN client_log :
              /\ i < j
              /\ client_log[i].kind = "Subscribe" /\ client_log[i].component_type = T
              /\ client_log[i].connection_id = c
              /\ client_log[j] = UnsubscribeRequest(c, client_log[i].subscription_id)

IsUnsubscribeStep(c, id) ==
    /\ Len(client_log') = Len(client_log) + 1
    /\ client_log'[Len(client_log')] = UnsubscribeRequest(c, id)

\* C8: an Unsubscribe that repeats the Unsubscribe handled just before it, or
\* that names a (connection, subscription_id) without an entry, leaves the
\* subscription manager exactly as it was.
C8_UnsubscribeIdempotent ==
    [][\A c \in ConnIds, id \in SubIds :
          IsUnsubscribeStep(c, id) =>
              /\ (Len(client_log) > 0
                    /\ client_log[Len(client_log)] = UnsubscribeRequest(c, id))
                 => sm_subscriptions' = sm_subscriptions
              /\ ~HasEntry(sm_subscriptions, c, id)
                 => sm_subscriptions' = sm_subscriptions
      ]_vars

\* the same Unsubscribe handled twice in a row while other entries exist
C8_Witness ==
    /\ Len(client_log) >= 3
    /\ client_log[Len(client_log)].kind = "Unsubscribe"
    /\ client_log[Len(client_log)] = client_log[Len(client_log) - 1]
    /\ Len(sm_subscriptions) > 0

\* C9: draining a connection removes every entry of that connection and
\* leaves the entries of the other connections as they were, in their order.
C9_DrainRemovesOnlyOwnEntries ==
    [][\A c \in ConnIds :
          (c \in established_connections /\ c \notin established_connections')
              => LET Other(x) == x.connection_id # c
                 IN  /\ \A i \in DOMAIN sm_subscriptions' :
                           sm_subscriptions'[i].connection_id # c
                     /\ sm_subscriptions' = SelectSeq(sm_subscriptions, Other)
      ]_vars

\* a connection with entries has been drained while another connection's
\* entries are still held
C9_Witness ==
    \E c \in ConnIds :
        /\ c < connection_count
        /\ c \notin established_connections
        /\ \E i \in DOMAIN client_log :
              client_log[i].kind = "Subscribe" /\ client_log[i].connection_id = c
        /\ Len(sm_subscriptions) > 0
        /\ \A i \in DOMAIN sm_subscriptions : sm_subscriptions[i].connection_id # c


\* ------------------------------------------------ mutation specification
notMut == <<clientVars, ingressVars, subVars, trackerVars, historyVars, frameVars, restVars>>

MutationConns == {SERVER, 1}
MutationEntities == {DANGLING, 7, 12}
MutationValues == {<<4>>, <<0, 1>>}
Mutations ==
    {QueuedMutation(c, Some(1), e, T, v) :
        c \in MutationConns, e \in MutationEntities,
        T \in Types \cup {UnregisteredType}, v \in MutationValues}

EnqueueStep == \E m \in Mutations : EnqueueMutation(m) /\ UNCHANGED notMut
ProcessStep == ProcessMutation /\ UNCHANGED notMut

DispatchStep == DispatchChanges /\ UNCHANGED notMut

NextMut ==
    \/ EnqueueStep
    \/ ProcessStep
    \/ DispatchStep

InitPolicies ==
    InitClient /\ InitIngress /\ InitSub /\ InitMutPolicies /\ InitTracker
    /\ InitRest

SpecMut == InitPolicies /\ [][NextMut]_vars

\* C10: under the server-only policy the authorizer allows a mutation exactly
\* when its connection id is the reserved server id, and answers Forbidden to
\* a mutation of any other connection, which is then the status reported.
C10_ServerOnlyPolicy ==
    authorizer = "ServerOnly" =>
        \A i \in DOMAIN mutation_responses :
            LET r == mutation_responses[i]
            IN  r.verdict # "NotConsulted" =>
                    /\ (r.verdict = "Ok") <=> (r.connection_id = SERVER)
                    /\ (r.connection_id # SERVER)
                          => (r.verdict = "Forbidden" /\ r.status = "Forbidden")

\* one mutation of the server allowed and one of a client refused
C10_Witness ==
    /\ authorizer = "ServerOnly"
    /\ \E i, j \in DOMAIN mutation_responses :
          /\ mutation_responses[i].connection_id = SERVER
          /\ mutation_responses[i].verdict = "Ok"
          /\ mutation_responses[j].connection_id # SERVER
          /\ mutation_responses[j].status = "Forbidden"

\* the step has produced a response; LastResponse is that response
Responded == Len(mutation_responses') = Len(mutation_responses) + 1
LastResponse == mutation_responses'[Len(mutation_responses')]

\* C11: a mutation whose reported status is not Ok (Forbidden,
\* ValidationError, NotFound) leaves the world unchanged: nothing is spawned,
\* inserted or replaced, and no change is recorded.
C11_FailedMutationLeavesWorld ==
    [][(Responded /\ LastResponse.status # "Ok")
          => (world' = world /\ changed' = changed)]_vars

\* a mutation refused by the authorizer and one on a missing entity have both
\* been answered
C11_Witness ==
    \E i, j \in DOMAIN mutation_responses :
        /\ mutation_responses[i].status = "Forbidden"
        /\ mutation_responses[j].status = "NotFound"
        /\ mutation_responses[j].mutation.entity \notin DOMAIN world

\* C12: applying an authorized mutation whose payload decodes: a DANGLING
\* entity spawns exactly one new entity carrying the decoded component, with
\* status Ok; a live entity has that component inserted or replaced by the
\* decoded value, with status Ok; any other entity gives NotFound.
C12_ApplyDecodedMutation ==
    [][(/\ Responded
        /\ LastResponse.verdict = "Ok"
        /\ decode_from_slice(LastResponse.mutation.component_type,
                             LastResponse.mutation.value).ok)
       => LET m == LastResponse.mutation
              T == m.component_type
              v == decode_from_slice(T, m.value).val
          IN  IF m.entity = DANGLING
              THEN /\ LastResponse.status = "Ok"
                   /\ Cardinality(DOMAIN world') = Cardinality(DOMAIN world) + 1
                   /\ \A e \in DOMAIN world :
                          e \in DOMAIN world' /\ world'[e] = world[e]
                   /\ \A e \in DOMAIN world' \ DOMAIN world :
                          world'[e] = Insert(EmptyMap, T, v)
              ELSE IF m.entity \in DOMAIN world
              THEN /\ LastResponse.status = "Ok"
                   /\ DOMAIN world' = DOMAIN world
                   /\ world'[m.entity] = Insert(world[m.entity], T, v)
                   /\ \A e \in DOMAIN world \ {m.entity} : world'[e] = world[e]
              ELSE LastResponse.status = "NotFound" /\ world' = world]_vars

\* one mutation has spawned an entity and one has replaced the counter of
\* entity 7
C12_Witness ==
    /\ Cardinality(DOMAIN world) = 2
    /\ world[7]["DemoCounter"].value # 3
    /\ \E i \in DOMAIN mutation_responses :
          /\ mutation_responses[i].mutation.entity = DANGLING
          /\ mutation_responses[i].status = "Ok"

\* ------------------------------------------------ a subscriber's store
\* ComponentTypeRegistry::deserialize_by_name: bytes -> T -> JSON value
deserialize_by_name(reg, type_name, bytes) ==
    IF type_name \notin reg THEN DecodeErr
    ELSE LET v == decode_from_slice(type_name, bytes)
         IN  IF v.ok THEN [ok |-> TRUE, val |-> v.val] ELSE DecodeErr

\* the entity map kept by the devtools subscriber, one item applied
DevtoolsApplyItem(map, it) ==
    CASE it.item \in {"Snapshot", "Update"} ->
            LET j == deserialize_by_name(Types, it.component_type, it.value)
                old == IF it.entity \in DOMAIN map THEN map[it.entity] ELSE EmptyMap
            IN  IF j.ok THEN Insert(map, it.entity,
                                    Insert(old, it.component_type, j.val))
                ELSE map
      [] it.item = "ComponentRemoved" ->
            IF it.entity \in DOMAIN map
            THEN LET entry == Remove(map[it.entity], it.component_type)
                 IN  IF DOMAIN entry = {} THEN Remove(map, it.entity)
                     ELSE Insert(map, it.entity, entry)
            ELSE map
      [] OTHER -> Remove(map, it.entity)

\* the entity map after the items of all batches received so far
RECURSIVE DevtoolsEntities(_)
DevtoolsEntities(items) ==
    IF Len(items) = 0 THEN EmptyMap
    ELSE DevtoolsApplyItem(DevtoolsEntities(SubSeq(items, 1, Len(items) - 1)),
                           items[Len(items)])

\* response i reports a mutation of component T of entity e applied with Ok
OkOn(i, e, T) ==
    /\ mutation_responses[i].status = "Ok"
    /\ mutation_responses[i].mutation.entity = e
    /\ mutation_responses[i].mutation.component_type = T

notTracker ==
    <<clientVars, ingressVars, subVars, mutVars, historyVars, frameVars, restVars>>

JsonCounter == [value |-> JNum(2)]
JsonFlag == [label |-> JStr(<<97>>), enabled |-> JBool(TRUE)]
\* (type name, JSON value) pairs given to mutate: two that convert, an
\* unregistered name, a value that does not fit the type
MutateInputs ==
    {<<"DemoCounter", JsonCounter>>, <<"DemoFlag", JsonFlag>>,
     <<UnregisteredType, JsonCounter>>, <<"DemoCounter", JsonFlag>>}
MutateEntities == {7, DANGLING}
ResponseIds == {NoneOpt} \cup {Some(i) : i \in 1..(MaxMutateCalls + 1)}
Responses ==
    {MutationResponse(r, "Ok", NoneOpt) : r \in ResponseIds}
    \cup {MutationResponse(r, "Forbidden", Some("denied")) : r \in ResponseIds}

MutateStep ==
    \E e \in MutateEntities : \E inp \in MutateInputs :
        /\ Len(mutate_calls) < MaxMutateCalls
        /\ mutate(e, inp[1], inp[2])
        /\ UNCHANGED notTracker
ResponseStep ==
    \E r \in Responses :
        /\ Len(responses_handled) < MaxResponses
        /\ HandleResponse(r)
        /\ UNCHANGED notTracker

NextTracker ==
    \/ MutateStep
    \/ ResponseStep

SpecTracker == Init /\ [][NextTracker]_vars

\* the step is a mutate call; LastCall is its record
Mutated == Len(mutate_calls') = Len(mutate_calls) + 1
LastCall == mutate_calls'[Len(mutate_calls')]
\* the step handles a response; LastHandled is that response
Handled == Len(responses_handled') = Len(responses_handled) + 1
LastHandled == responses_handled'[Len(responses_handled')]
Pending(muts, id) == id \in DOMAIN muts /\ muts[id] = new_pending(id)
Returned(id) == \E i \in DOMAIN mutate_calls : mutate_calls[i].returned = id

\* C14: the state of a mutation is pending from the mutate call; handling a
\* MutationResponse with the same request_id makes it terminal with that
\* response's status and message; any other step leaves a pending state
\* pending, and no step removes a state.
C14_PendingUntilResponse ==
    [][/\ Mutated => Pending(mutations', LastCall.returned)
       /\ \A id \in DOMAIN mutations :
             /\ id \in DOMAIN mutations'
             /\ (Handled /\ LastHandled.request_id = Some(id))
                   => /\ mutations'[id].status = Some(LastHandled.status)
                      /\ mutations'[id].message = LastHandled.message
             /\ (Pending(mutations, id)
                    /\ ~(Handled /\ LastHandled.request_id = Some(id)))
                   => Pending(mutations', id)]_vars

\* one mutation has been answered (status and message stored) while another
\* is still pending
C14_Witness ==
    \E a, b \in DOMAIN mutations :
        /\ Returned(a) /\ Returned(b)
        /\ mutations[a].status = Some("Forbidden")
        /\ mutations[a].message = Some("denied")
        /\ Pending(mutations, b)

\* C15: handling a MutationResponse whose request_id was never returned by
\* mutate leaves the mutation state map as it was.
C15_UnknownResponseIgnored ==
    [][(/\ Handled
        /\ (LastHandled.request_id.some => ~Returned(LastHandled.request_id.val)))
       => mutations' = mutations]_vars

\* C16: a mutate call whose JSON value cannot be converted to bytes sends no
\* Mutate message and creates no mutation state.
C16_FailedSerializationLeavesNoState ==
    [][(Mutated /\ ~LastCall.serialized)
       => (client_sent' = client_sent /\ mutations' = mutations)]_vars

\* the mutate calls whose value was converted, in call order
SerializedCalls == SelectSeq(mutate_calls, LAMBDA c : c.serialized)

\* C17: the request_ids returned by successive mutate calls start at 1 and
\* strictly increase, and the Mutate messages sent carry, in order, the ids
\* returned by the calls that sent them.
C17_RequestIdsIncrease ==
    /\ Len(mutate_calls) > 0 => mutate_calls[1].returned = 1
    /\ \A i, j \in DOMAIN mutate_calls :
          i < j => mutate_calls[i].returned < mutate_calls[j].returned
    /\ Len(client_sent) = Len(SerializedCalls)
    /\ \A i \in DOMAIN client_sent :
          client_sent[i].request_id = Some(SerializedCalls[i].returned)

\* two calls were made, the first sent nothing and the second sent its Mutate
C17_Witness ==
    /\ Len(mutate_calls) = 2
    /\ ~mutate_calls[1].serialized
    /\ Len(client_sent) = 1
    /\ client_sent[1].request_id = Some(2)


\* ------------------------------------------------ clone specification
\* SyncClient::clone: the send function is shared (Arc::clone); the counter
\* and the map are copied into mutexes of the clone's own
SyncClient_clone ==
    /\ clone_client = NoClone
    /\ clone_client' = <<[next_request_id |-> next_request_id,
                          mutations |-> mutations]>>
    /\ UNCHANGED <<clone_calls, trackerVars>>

\* SyncClient::mutate called on the clone
CloneMutate(entity, component_type, value) ==
    /\ clone_client # NoClone
    /\ LET self == clone_client[1]
           request_id == self.next_request_id + 1
           value_bytes == serialize_by_name(TrackerRegistry, component_type, value)
       IN  /\ clone_client' =
                 <<[next_request_id |-> request_id,
                    mutations |-> Insert(self.mutations, request_id,
                                         new_pending(request_id))]>>
           /\ client_sent' =
                 IF value_bytes.ok
                 THEN Append(client_sent,
                             MutateComponent(Some(request_id), entity,
                                             component_type, value_bytes.val))
                 ELSE client_sent
           /\ clone_calls' = Append(clone_calls,
                 [returned |-> request_id, serialized |-> value_bytes.ok])
    /\ UNCHANGED <<next_request_id, mutations, mutate_calls, responses_handled>>

notClone ==
    <<clientVars, ingressVars, subVars, mutVars, historyVars, frameVars,
      registryVars, codecVars, messageVars, fieldVars, devtoolsVars, threadVars,
      netVars>>

CloneStep == SyncClient_clone /\ UNCHANGED notClone
CloneMutateStep ==
    \E e \in MutateEntities : \E inp \in MutateInputs :
        /\ Len(clone_calls) < MaxMutateCalls
        /\ CloneMutate(e, inp[1], inp[2])
        /\ UNCHANGED notClone

NextClone ==
    \/ MutateStep
    \/ CloneStep
    \/ CloneMutateStep

SpecClone == Init /\ [][NextClone]_vars

\* C34: the Mutate messages handed to the send function, by the SyncClient
\* and by its clone, carry pairwise distinct request_ids.
C34_DistinctRequestIdsAcrossClones ==
    \A i, j \in DOMAIN client_sent :
        i # j => client_sent[i].request_id # client_sent[j].request_id


\* ------------------------------------------------ DevtoolsSync specification
\* DevtoolsSync::mutate, its first statement: the call is delegated to the
\* SyncClient, which hands the Mutate message to the send function
DevtoolsMutateCall(entity, component_type, value) ==
    /\ devtools_pending = <<>>
    /\ mutate(entity, component_type, value)
    /\ devtools_pending' = <<next_request_id + 1>>
    /\ UNCHANGED <<reactive_mutations, devtools_log>>

\* DevtoolsSync::mutate, its second statement: the returned id is entered
\* as pending into the reactive map
DevtoolsMutateTrack ==
    /\ devtools_pending # <<>>
    /\ reactive_mutations' =
          Insert(reactive_mutations, devtools_pending[1],
                 new_pending(devtools_pending[1]))
    /\ devtools_pending' = <<>>
    /\ devtools_log' = Append(devtools_log, "mutate")
    /\ UNCHANGED trackerVars

\* DevtoolsSync::sync_mutations_from_client, given the client's map
sync_mutations_from_client(client_mutations) ==
    reactive_mutations' = client_mutations

\* DevtoolsSync::handle_mutation_response
DevtoolsHandleMutationResponse(response) ==
    /\ HandleResponse(response)
    /\ sync_mutations_from_client(mutations')
    /\ devtools_log' = Append(devtools_log, "handle_mutation_response")
    /\ UNCHANGED devtools_pending

\* SyncServerMessage: a MutationResponse, or a SyncBatch
ServerMessage(kind, response) == [kind |-> kind, response |-> response]

\* DevtoolsSync::handle_server_message
DevtoolsHandleServerMessage(message) ==
    /\ IF message.kind = "MutationResponse"
       THEN HandleResponse(message.response)
       ELSE UNCHANGED trackerVars
    /\ sync_mutations_from_client(mutations')
    /\ devtools_log' = Append(devtools_log, "handle_server_message")
    /\ UNCHANGED devtools_pending

notDevtools ==
    <<clientVars, ingressVars, subVars, mutVars, historyVars, frameVars,
      registryVars, codecVars, messageVars, fieldVars, cloneVars, threadVars,
      netVars>>

\* one value that converts and one that does not
DevtoolsInputs == {<<"DemoCounter", JsonCounter>>, <<"DemoCounter", JsonFlag>>}
DevtoolsResponses == {MutationResponse(r, "Ok", NoneOpt) : r \in ResponseIds}
DevtoolsServerMessages ==
    {ServerMessage("MutationResponse", r) : r \in DevtoolsResponses}
    \cup {ServerMessage("SyncBatch", <<>>)}
\* the handle operations completed so far
HandleOperations == Len(SelectSeq(devtools_log, LAMBDA op : op # "mutate"))

DevtoolsMutateCallStep ==
    \E inp \in DevtoolsInputs :
        /\ Len(mutate_calls) < MaxMutateCalls
        /\ DevtoolsMutateCall(7, inp[1], inp[2])
        /\ UNCHANGED notDevtools
DevtoolsMutateTrackStep == DevtoolsMutateTrack /\ UNCHANGED notDevtools
DevtoolsResponseStep ==
    \E r \in DevtoolsResponses :
        /\ HandleOperations < MaxResponses
        /\ DevtoolsHandleMutationResponse(r)
        /\ UNCHANGED notDevtools
DevtoolsServerMessageStep ==
    \E m \in DevtoolsServerMessages :
        /\ HandleOperations < MaxResponses
        /\ DevtoolsHandleServerMessage(m)
        /\ UNCHANGED notDevtools

NextDevtools ==
    \/ DevtoolsMutateCallStep
    \/ DevtoolsMutateTrackStep
    \/ DevtoolsResponseStep
    \/ DevtoolsServerMessageStep

SpecDevtools == Init /\ [][NextDevtools]_vars

\* the step completes a DevtoolsSync operation
DevtoolsOperationEnds == Len(devtools_log') = Len(devtools_log) + 1

\* C35: when a DevtoolsSync operation (mutate, handle_server_message,
\* handle_mutation_response) ends, the reactive map equals the map of the
\* wrapped SyncClient; and an entry the reactive map shows as terminal is
\* still there and terminal after every step.
C35_ReactiveMapFollowsClient ==
    [][/\ DevtoolsOperationEnds => reactive_mutations' = mutations'
       /\ \A id \in DOMAIN reactive_mutations :
             reactive_mutations[id].status.some =>
                 /\ id \in DOMAIN reactive_mutations'
                 /\ reactive_mutations'[id].status.some]_vars


\* ------------------------------------------------ concurrent mutate calls
\* SyncClient::mutate runs in three parts: the counter is incremented and read
\* under the lock of next_request_id, the pending state is inserted under
\* the lock of mutations, and the value is converted and sent under no lock
InMutate(pc, input, request_id) ==
    [pc |-> pc, input |-> input, request_id |-> request_id]

\* variant: the counter is read under the lock but not written back
ThreadTakeId_NoWrite(t, input) ==
    /\ threads[t] = NotCalled
    /\ threads' = [threads EXCEPT ![t] = InMutate("insert", input, next_request_id + 1)]
    /\ UNCHANGED <<next_request_id, mutations, client_sent, mutate_calls,
                   responses_handled>>

\* mutate, first part: *next_id += 1; *next_id
ThreadTakeId(t, input) ==
    /\ threads[t] = NotCalled
    /\ next_request_id' = next_request_id + 1
    /\ threads' = [threads EXCEPT ![t] = InMutate("insert", input, next_request_id + 1)]
    /\ UNCHANGED <<mutations, client_sent, mutate_calls, responses_handled>>

\* mutate, second part: mutations.insert(request_id, new_pending(request_id))
ThreadInsert(t) ==
    /\ threads[t].pc = "insert"
    /\ mutations' = Insert(mutations, threads[t].request_id,
                           new_pending(threads[t].request_id))
    /\ threads' = [threads EXCEPT ![t].pc = "send"]
    /\ UNCHANGED <<next_request_id, client_sent, mutate_calls, responses_handled>>

\* mutate, third part: serialize_by_name, (self.send)(msg), return request_id
ThreadSend(t) ==
    /\ threads[t].pc = "send"
    /\ LET request_id == threads[t].request_id
           component_type == threads[t].input[1]
           value_bytes == serialize_by_name(TrackerRegistry, component_type,
                                            threads[t].input[2])
       IN  /\ client_sent' =
                 IF value_bytes.ok
                 THEN Append(client_sent,
                             MutateComponent(Some(request_id), 7,
                                             component_type, value_bytes.val))
                 ELSE client_sent
           /\ mutate_calls' = Append(mutate_calls,
                 [returned |-> request_id, serialized |-> value_bytes.ok])
    /\ threads' = [threads EXCEPT ![t].pc = "returned"]
    /\ UNCHANGED <<next_request_id, mutations, responses_handled>>

notThreads ==
    <<clientVars, ingressVars, subVars, mutVars, historyVars, frameVars,
      registryVars, codecVars, messageVars, fieldVars, cloneVars, devtoolsVars,
      netVars>>

ThreadTakeIdStep ==
    \E t \in Threads : \E inp \in MutateInputs :
        ThreadTakeId(t, inp) /\ UNCHANGED notThreads
ThreadInsertStep == \E t \in Threads : ThreadInsert(t) /\ UNCHANGED notThreads
ThreadSendStep == \E t \in Threads : ThreadSend(t) /\ UNCHANGED notThreads

NextThreads ==
    \/ ThreadTakeIdStep
    \/ ThreadInsertStep
    \/ ThreadSendStep

SpecThreads == Init /\ [][NextThreads]_vars

\* the threads that are in mutate or have returned from it
Calling == {t \in Threads : threads[t] # NotCalled}
AllReturned == \A t \in Threads : threads[t].pc = "returned"

\* C38: the request_ids of concurrent mutate calls on one SyncClient are
\* pairwise distinct, and once all calls have returned the mutation map has
\* one entry for each returned id and no other entry.
C38_ConcurrentMutateDistinctIds ==
    /\ \A t, u \in Calling :
          t # u => threads[t].request_id # threads[u].request_id
    /\ AllReturned =>
          /\ DOMAIN mutations = {threads[t].request_id : t \in Threads}
          /\ Cardinality(DOMAIN mutations) = MaxThreads
          /\ \A id \in DOMAIN mutations : mutations[id].request_id = id

\* all calls have returned, and the call that took the later id sent its
\* message and returned first
C38_Witness ==
    /\ AllReturned
    /\ mutate_calls[1].returned = 2
    /\ Len(client_sent) >= 2
    /\ client_sent[1].request_id = Some(2)


\* C33: once the state of a mutation that mutate returned is terminal, no
\* step, in particular the handling of another MutationResponse with the
\* same request_id, changes its status or its message.
C33_TerminalStateIsFinal ==
    [][\A id \in DOMAIN mutations :
          (Returned(id) /\ mutations[id].status.some) =>
              /\ id \in DOMAIN mutations'
              /\ mutations'[id].status = mutations[id].status
              /\ mutations'[id].message = mutations[id].message]_vars


\* the responses to mutations that reached the typed apply function with a
\* payload that does not decode into the component type
Undecodable ==
    {i \in DOMAIN mutation_responses :
        /\ mutation_responses[i].mutation.component_type \in Types
        /\ mutation_responses[i].verdict = "Ok"
        /\ ~decode_from_slice(mutation_responses[i].mutation.component_type,
                              mutation_responses[i].mutation.value).ok}

\* C30: a mutation whose payload does not decode into its component type is
\* answered ValidationError, whether its entity is DANGLING, live or missing.
C30_UndecodablePayloadIsValidationError ==
    \A i \in Undecodable : mutation_responses[i].status = "ValidationError"

\* an undecodable payload was answered for DANGLING and for a missing entity
C30_Witness ==
    /\ \E i \in Undecodable : mutation_responses[i].mutation.entity = DANGLING
    /\ \E i \in Undecodable : mutation_responses[i].mutation.entity = 12

\* C22: the server emits a MutationResponse only when the mutation stage takes
\* a Mutate off the queue, and then exactly one, carrying the request_id and
\* the connection of that Mutate; a Mutate leaves the queue only that way.
C22_OneResponsePerMutate ==
    [][/\ mutation_responses' # mutation_responses =>
            /\ Len(mutation_queue) > 0
            /\ mutation_queue' = Tail(mutation_queue)
            /\ Len(mutation_responses') = Len(mutation_responses) + 1
            /\ SubSeq(mutation_responses', 1, Len(mutation_responses))
                   = mutation_responses
            /\ LET r == mutation_responses'[Len(mutation_responses')]
               IN  /\ r.request_id = Head(mutation_queue).request_id
                   /\ r.connection_id = Head(mutation_queue).connection_id
       /\ (Len(mutation_queue') < Len(mutation_queue)
               \/ (Len(mutation_queue') = Len(mutation_queue)
                      /\ mutation_queue' # mutation_queue)) =>
            Len(mutation_responses') = Len(mutation_responses) + 1]_vars

\* two Mutate messages have been handled, each answered once
C22_Witness ==
    /\ Len(mutation_queue) = 0
    /\ Len(mutation_responses) = 2
    /\ \A i \in DOMAIN mutation_responses :
           /\ mutation_responses[i].connection_id = 1
           /\ mutation_responses[i].request_id = Some(1)


\* ------------------------------------------------ registry specification
notRegistry ==
    <<clientVars, ingressVars, subVars, mutVars, trackerVars, historyVars,
      frameVars, codecVars, messageVars, fieldVars, lateVars>>

RegisterStep ==
    \E T \in ServerTypes : register_component(T) /\ UNCHANGED notRegistry

NextRegistry == RegisterStep

SpecRegistry == Init /\ [][NextRegistry]_vars

RegistrationsOf(T) ==
    {i \in DOMAIN sync_components : sync_components[i].type_id = TypeId_of(T)}
SystemsOf(T) == {i \in DOMAIN change_systems : change_systems[i] = TypeId_of(T)}

\* C23: however often a component type is registered, the registry holds at
\* most one registration for it and the schedule at most one change-detection
\* system for it.
C23_RegisterTwiceIsNoOp ==
    \A T \in ServerTypes :
        /\ Cardinality(RegistrationsOf(T)) <= 1
        /\ Cardinality(SystemsOf(T)) <= 1

\* C24: the registry never holds two registrations with the same type name.
C24_UniqueTypeNames ==
    \A i, j \in DOMAIN sync_components :
        sync_components[i].type_name = sync_components[j].type_name => i = j


\* C32: every Unsubscribe the client sends on an open connection follows a
\* Subscribe with the same subscription_id sent on that connection.
C32_UnsubscribeFollowsSubscribe ==
    \A i \in DOMAIN sent :
        (sent[i].kind = "Unsubscribe" /\ sent[i].open) =>
            \E j \in 1..(i - 1) :
                /\ sent[j].kind = "Subscribe"
                /\ sent[j].subscription_id = sent[i].subscription_id
                /\ sent[j].conn = sent[i].conn


\* C31: handling Unsubscribe(c, id) removes every entry of connection c with
\* subscription id, and leaves every other entry (the same id on another
\* connection, another id on the same connection) in place and in order.
C31_RemoveMatchesBoth ==
    [][\A c \in ConnIds, id \in SubIds :
          IsUnsubscribeStep(c, id) =>
              LET Stays(x) == x.connection_id # c \/ x.subscription_id # id
              IN  sm_subscriptions' = SelectSeq(sm_subscriptions, Stays)]_vars

\* an Unsubscribe removed the entry of one connection while the entry with
\* the same subscription_id on the other connection stayed
C31_Witness ==
    /\ Len(client_log) > 0
    /\ client_log[Len(client_log)] = UnsubscribeRequest(1, 1)
    /\ \E i \in DOMAIN client_log : client_log[i].kind = "Subscribe"
           /\ client_log[i].connection_id = 1 /\ client_log[i].subscription_id = 1
    /\ ~HasEntry(sm_subscriptions, 1, 1)
    /\ HasEntry(sm_subscriptions, 2, 1)


\* C27: an accepted connection is given the current value of the counter,
\* which then advances by one and never goes back, so the ids given out
\* strictly increase and none is given twice; every id given is above the
\* reserved server id.
C27_ConnectionIdsIncrease ==
    /\ [](\A c \in established_connections :
              c # SERVER /\ c > SERVER /\ c < connection_count)
    /\ [][/\ connection_count' >= connection_count
          /\ \A c \in established_connections' \ established_connections :
                 /\ c = connection_count
                 /\ connection_count' = connection_count + 1]_vars

\* two connections were accepted and the first has gone
C27_Witness ==
    /\ established_connections = {2}
    /\ connection_count = 3


\* ------------------------------------------------ codec specification
notCodec ==
    <<clientVars, ingressVars, subVars, mutVars, trackerVars, historyVars,
      frameVars, registryVars, messageVars, fieldVars, lateVars>>

\* "", "T", "\u00e9" as UTF-8
CodecNames == {<<>>, <<84>>, <<195, 169>>}
CodecHashes == {0, 4660}
CodecData == {<<>>, <<1>>, <<1, 2>>}
CodecPackets ==
    {NetworkPacket(n, h, v) : n \in CodecNames, h \in CodecHashes, v \in CodecData}

\* frames a receiver may be handed in place of the one encoded
Truncated(bs) == {SubSeq(bs, 1, k) : k \in 0..(Len(bs) - 1)}
Reprefixed(bs) ==
    {u64_to_le_bytes(l) \o SubSeq(bs, 9, Len(bs)) :
        l \in {0, Len(bs) - 9, Len(bs) - 7}}
Extended(bs) == {bs \o <<0>>}
Corrupted(bs) ==
    {[bs EXCEPT ![i] = 255] : i \in 9..Len(bs)}
Frames(bs) ==
    {bs} \cup Truncated(bs) \cup Reprefixed(bs) \cup Extended(bs) \cup Corrupted(bs)

EncodeStep == \E packet \in CodecPackets : Encode(packet) /\ UNCHANGED notCodec
ReceiveStep ==
    \E frame \in Frames(codec_encoded) : Receive(frame) /\ UNCHANGED notCodec
DecodeStep == Decode /\ UNCHANGED notCodec

NextCodec ==
    \/ EncodeStep
    \/ ReceiveStep
    \/ DecodeStep

SpecCodec == Init /\ [][NextCodec]_vars

\* C25: what encode returns is an 8-byte little-endian length followed by
\* exactly that many bytes; decoding it succeeds and gives back the packet.
C25_EncodeDecodeRoundTrip ==
    /\ codec_encoded # NoBytes =>
           /\ Len(codec_encoded) >= 8
           /\ u64_from_le_bytes(SubSeq(codec_encoded, 1, 8))
                  = Len(codec_encoded) - 8
    /\ (codec_decoded # NotDecoded /\ codec_received = codec_encoded) =>
           /\ codec_decoded[1].ok
           /\ codec_decoded[1].val = codec_packet[1]

\* a packet with a name and data went through encode and decode
C25_Witness ==
    /\ codec_decoded # NotDecoded
    /\ codec_received = codec_encoded
    /\ Len(codec_packet[1].type_name) > 0
    /\ Len(codec_packet[1].data) > 0

\* the frame is shorter than the prefix, or its prefix is not the number of
\* bytes after it, or those bytes do not deserialize
Malformed(frame) ==
    \/ Len(frame) < 8
    \/ u64_from_le_bytes(SubSeq(frame, 1, 8)) # Len(frame) - 8
    \/ ~bincode_deserialize(SubSeq(frame, 9, Len(frame))).ok

\* C26: decode returns an error, and no packet, for every malformed frame.
C26_MalformedFrameRejected ==
    (codec_decoded # NotDecoded /\ Malformed(codec_received)) =>
        ~codec_decoded[1].ok


\* ------------------------------------------------ message-registration specification
notMessages ==
    <<clientVars, ingressVars, subVars, mutVars, trackerVars, historyVars,
      frameVars, registryVars, codecVars, fieldVars, lateVars>>

RegisterMessageStep ==
    \E T \in MessageTypes : register_network_message(T) /\ UNCHANGED notMessages
RegisterAutoStep ==
    \E T \in MessageTypes : register_auto_if_needed(T) /\ UNCHANGED notMessages

NextMessages ==
    \/ RegisterMessageStep
    \/ RegisterAutoStep

SpecMessages == Init /\ [][NextMessages]_vars

\* the step is the explicit registration call for T
ExplicitCall(T) ==
    /\ net_panic = NoPanic
    /\ last_registration' = <<[call |-> "register_network_message", type |-> T]>>
    /\ \/ last_registration' # last_registration
       \/ net_panic' # net_panic
       \/ receive_systems' # receive_systems

\* C28: the explicit registration call for an already registered message type
\* panics with 'Duplicate registration' and leaves the registration maps and
\* the installed systems as they were.
C28_DuplicateRegistrationPanics ==
    [][\A T \in MessageTypes :
          (ExplicitCall(T) /\ type_name_of(T) \in recv_message_map) =>
              /\ net_panic' = DuplicateRegistration(T)
              /\ UNCHANGED <<recv_message_map, recv_message_map_by_hash,
                             hash_to_typename, receive_systems>>]_vars

\* a duplicate explicit registration has panicked, the first one in place
C28_Witness ==
    \E T \in MessageTypes :
        /\ net_panic = DuplicateRegistration(T)
        /\ type_name_of(T) \in recv_message_map
        /\ hash_to_typename[schema_hash_of(T)] = type_name_of(T)
        /\ Len(receive_systems) = 1


\* ------------------------------------------------ Network: connection lifecycle
MaxPackets == 1        \* packets read from connections in one run

\* NetworkEvent
Connected(id) == [kind |-> "Connected", id |-> id]
Disconnected(id) == [kind |-> "Disconnected", id |-> id]

\* the orders in which an iteration over a DashMap can visit the keys S
IterOrders(S) ==
    {q \in [1..Cardinality(S) -> S] : \A i, j \in DOMAIN q : i # j => q[i] # q[j]}

\* one event per id of a sequence, in its order
EventsFor(Event(_), ids) == [i \in DOMAIN ids |-> Event(ids[i])]

\* Network::stop, all but the take of server_handle: while listening, every
\* established id is sent to the disconnected channel, the established
\* connections and recv_message_map are cleared and waiting connections are
\* discarded; the loops of the dropped connections end with them
Network_stop ==
    IF server_handle
    THEN /\ \E order \in IterOrders(established_connections) :
               disconnected_connections' = disconnected_connections \o order
         /\ established_connections' = {}
         /\ recv_message_map' = {}
         /\ new_connections' = 0
    ELSE UNCHANGED <<disconnected_connections, established_connections,
                     recv_message_map, new_connections>>

\* Network::stop
Stop ==
    /\ Network_stop
    /\ server_handle' = FALSE
    /\ UNCHANGED <<network_events, recv_finished, packet_log, net_started,
                   connection_count, recv_message_map_by_hash, hash_to_typename,
                   receive_systems, net_panic, last_registration>>

\* Network::listen: stop, then a new accept loop
Listen ==
    /\ Network_stop
    /\ server_handle' = TRUE
    /\ net_started' = TRUE
    /\ UNCHANGED <<network_events, recv_finished, packet_log,
                   connection_count, recv_message_map_by_hash, hash_to_typename,
                   receive_systems, net_panic, last_registration>>

\* the accept loop of listen hands a new connection to the channel
ProviderAccepts ==
    /\ server_handle
    /\ connection_count + new_connections <= MaxConns
    /\ new_connections' = new_connections + 1
    /\ UNCHANGED <<server_handle, disconnected_connections, network_events,
                   recv_finished, packet_log, net_started,
                   established_connections, connection_count, messageVars>>

\* Network::connect: the connect future hands its connection to the channel
Connect ==
    /\ connection_count + new_connections <= MaxConns
    /\ new_connections' = new_connections + 1
    /\ net_started' = TRUE
    /\ UNCHANGED <<server_handle, disconnected_connections, network_events,
                   recv_finished, packet_log,
                   established_connections, connection_count, messageVars>>

\* handle_new_incoming_connections: every waiting connection gets the next
\* id, is inserted and reported Connected; then every id waiting in the
\* disconnected channel is removed and reported Disconnected
handle_new_incoming_connections ==
    /\ new_connections > 0 \/ disconnected_connections # <<>>
    /\ LET accepted == [i \in 1..new_connections |-> connection_count + i - 1]
       IN  /\ connection_count' = connection_count + new_connections
           /\ established_connections' =
                 (established_connections \cup Elems(accepted))
                     \ Elems(disconnected_connections)
           /\ network_events' =
                 network_events \o EventsFor(Connected, accepted)
                     \o EventsFor(Disconnected, disconnected_connections)
    /\ new_connections' = 0
    /\ disconnected_connections' = <<>>
    /\ UNCHANGED <<server_handle, recv_finished, packet_log, net_started,
                   messageVars>>

\* the receive loop of connection c: recv_loop returns (the remote side
\* closed) and the loop sends the id to the disconnected channel
RemoteClose(c) ==
    /\ c \in established_connections
    /\ c \notin recv_finished
    /\ recv_finished' = recv_finished \cup {c}
    /\ disconnected_connections' = Append(disconnected_connections, c)
    /\ UNCHANGED <<server_handle, new_connections, network_events, packet_log,
                   net_started, established_connections, connection_count,
                   messageVars>>

\* Network::disconnect(conn_id) on an established connection: the entry is
\* removed and its loops are stopped
Disconnect(c) ==
    /\ c \in established_connections
    /\ established_connections' = established_connections \ {c}
    /\ recv_finished' = recv_finished \cup {c}
    /\ UNCHANGED <<server_handle, new_connections, disconnected_connections,
                   network_events, packet_log, net_started, connection_count,
                   messageVars>>

\* the queue a packet is pushed to by the map-receive loop: the one of its
\* type_name, else the one of the name registered for its schema_hash
QueueFor(type_name, schema_hash) ==
    IF type_name \in recv_message_map THEN <<type_name>>
    ELSE IF schema_hash \in DOMAIN hash_to_typename
         THEN IF hash_to_typename[schema_hash] \in recv_message_map
              THEN <<hash_to_typename[schema_hash]>>
              ELSE <<>>
         ELSE <<>>

\* connection c reads a packet of message type T
ReceivePacket(c, T) ==
    /\ c \in established_connections
    /\ c \notin recv_finished
    /\ packet_log' = Append(packet_log,
          [connection |-> c, type_name |-> type_name_of(T),
           queue |-> QueueFor(type_name_of(T), schema_hash_of(T))])
    /\ UNCHANGED <<server_handle, new_connections, disconnected_connections,
                   network_events, recv_finished, net_started,
                   established_connections, connection_count, messageVars>>

notNet ==
    <<clientVars, ingressVars, mutVars, trackerVars, historyVars, frameVars,
      registryVars, codecVars, fieldVars, cloneVars, devtoolsVars, threadVars,
      sm_subscriptions, snapshot_queue, client_log>>

\* the message types the app registers, and the types of the packets read
NetTypes == {<<"game", "Move">>, <<"chat", "Say">>}
PacketTypes == NetTypes \cup {<<"legacy", "Move">>}

NetRegisterStep ==
    \E T \in NetTypes :
        /\ ~net_started
        /\ register_auto_if_needed(T)
        /\ UNCHANGED <<netVars, established_connections, connection_count, notNet>>
ListenStep == Listen /\ UNCHANGED notNet
StopStep == Stop /\ UNCHANGED notNet
ProviderAcceptsStep == ProviderAccepts /\ UNCHANGED notNet
ConnectStep == Connect /\ UNCHANGED notNet
ConnectionsSystemStep == handle_new_incoming_connections /\ UNCHANGED notNet
RemoteCloseStep == \E c \in 1..MaxConns : RemoteClose(c) /\ UNCHANGED notNet
NetDisconnectStep == \E c \in 1..MaxConns : Disconnect(c) /\ UNCHANGED notNet
ReceivePacketStep ==
    \E c \in 1..MaxConns : \E T \in PacketTypes :
        /\ Len(packet_log) < MaxPackets
        /\ ReceivePacket(c, T)
        /\ UNCHANGED notNet

NextNet ==
    \/ NetRegisterStep
    \/ ListenStep
    \/ StopStep
    \/ ProviderAcceptsStep
    \/ ConnectStep
    \/ ConnectionsSystemStep
    \/ RemoteCloseStep
    \/ NetDisconnectStep
    \/ ReceivePacketStep

SpecNet == Init /\ [][NextNet]_vars

\* C36: a connection id is reported Disconnected at most once, and only
\* after it was reported Connected.
C36_DisconnectedOnceAfterConnected ==
    \A i \in DOMAIN network_events :
        network_events[i].kind = "Disconnected" =>
            /\ \E j \in 1..(i - 1) :
                  network_events[j] = Connected(network_events[i].id)
            /\ \A k \in DOMAIN network_events :
                  k # i => network_events[k] # network_events[i]

\* the step reads a packet; LastPacket is its record
PacketRead == Len(packet_log') = Len(packet_log) + 1
LastPacket == packet_log'[Len(packet_log')]

\* C37: no step, stop and listen included, removes a registered message
\* type, and a packet of a type that was registered is queued for its type.
C37_RegistrationsSurviveRestart ==
    [][/\ recv_message_map \subseteq recv_message_map'
       /\ (PacketRead /\ LastPacket.type_name \in Elems(receive_systems))
             => LastPacket.queue = <<LastPacket.type_name>>]_vars


\* ------------------------------------------------ editable-field specification
notField ==
    <<clientVars, ingressVars, subVars, mutVars, trackerVars, historyVars,
      frameVars, registryVars, codecVars, messageVars, lateVars>>

ServerValues == {1, 2}
TypedValues == {5, 6}

ServerValueStep ==
    \E v \in ServerValues : ServerValueChanges(v) /\ UNCHANGED notField
SyncEffectStep == SyncEffect /\ UNCHANGED notField
UserInputStep == \E v \in TypedValues : UserInput(v) /\ UNCHANGED notField
CommitTriggerStep == CommitTrigger /\ UNCHANGED notField
CommitEffectStep == CommitEffect /\ UNCHANGED notField

NextField ==
    \/ ServerValueStep
    \/ SyncEffectStep
    \/ UserInputStep
    \/ CommitTriggerStep
    \/ CommitEffectStep

SpecField == Init /\ [][NextField]_vars

\* C29: from the user's first keystroke until the commit the local value is
\* what the user typed: no server value is written over it.
C29_NoOverwriteWhileEditing ==
    user_editing => local_writer = "user"


\* ------------------------------------------------ frame specification
FrameMutations ==
    {QueuedMutation(SERVER, Some(1), e, "DemoCounter", <<4>>) : e \in {DANGLING, 7}}

FrameEnqueueStep ==
    \E m \in FrameMutations : EnqueueMutation(m) /\ UNCHANGED notMut
FrameClient == 1     \* the connection whose batches are followed
FrameSubscribeStep ==
    \E id \in SubIds :
        HandleSubscribe(FrameClient, id, "DemoCounter") /\ UNCHANGED notSub
FrameDisconnectStep == HandleDisconnect(FrameClient) /\ UNCHANGED notSub
DispatchFrameStep ==
    DispatchFrame
    /\ UNCHANGED <<clientVars, ingressVars, trackerVars, historyVars, restVars>>

NextFrame ==
    \/ AcceptStep
    \/ FrameSubscribeStep
    \/ FrameDisconnectStep
    \/ FrameEnqueueStep
    \/ ProcessStep
    \/ DispatchFrameStep

SpecFrame == Init /\ [][NextFrame]_vars

\* the positions of a batch holding an item of the given kind for a subscription
ItemsOf(batch, kind, id) ==
    {i \in DOMAIN batch.items :
        batch.items[i].item = kind /\ batch.items[i].subscription_id = id}

\* the batches sent by the step
NewBatches == {i \in DOMAIN batches' : i > Len(batches)}

====
